---- MODULE Spec2Model ----
(***************************************************************************)
(* Verification model of the orlo plugin (orlo-plugin/orlo.cc): the signal *)
(* registry, the primitive extractor, the loop breaker, the BLIF emitter,  *)
(* the external tool driver and the reintegrator.                          *)
(*                                                                         *)
(* Strings that the code takes apart (wire names, tool names, clock        *)
(* options) are sequences of one-character strings.                        *)
(***************************************************************************)
EXTENDS Integers, Sequences, FiniteSets, TLC

(***************************************************************************)
(* Bounds of the explored designs.                                         *)
(***************************************************************************)
MaxCells == 2
NodeCap == 12

(***************************************************************************)
(* Generic helpers.                                                        *)
(***************************************************************************)
Min(S) == CHOOSE x \in S : \A y \in S : x <= y

RECURSIVE SortedSeq(_)
SortedSeq(S) == IF S = {} THEN <<>> ELSE <<Min(S)>> \o SortedSeq(S \ {Min(S)})

Range(s) == {s[i] : i \in 1..Len(s)}

\* character codes (ASCII) of the characters that occur in names
Code(c) ==
  CASE c = "!" -> 33 [] c = "$" -> 36 [] c = "," -> 44 [] c = "-" -> 45
    [] c = "0" -> 48 [] c = "1" -> 49 [] c = "2" -> 50 [] c = "3" -> 51
    [] c = "4" -> 52 [] c = "5" -> 53 [] c = "6" -> 54 [] c = "7" -> 55
    [] c = "8" -> 56 [] c = "9" -> 57 [] c = "[" -> 91 [] c = "\\" -> 92
    [] c = "]" -> 93 [] c = "_" -> 95
    [] c = "a" -> 97 [] c = "b" -> 98 [] c = "c" -> 99 [] c = "d" -> 100
    [] c = "e" -> 101 [] c = "k" -> 107 [] c = "l" -> 108 [] c = "m" -> 109
    [] c = "n" -> 110 [] c = "o" -> 111 [] c = "p" -> 112 [] c = "s" -> 115
    [] c = "t" -> 116 [] c = "w" -> 119 [] c = "x" -> 120 [] c = "y" -> 121
    [] OTHER -> 127

\* std::string operator< : lexicographic comparison of two names
RECURSIVE StrLess(_, _)
StrLess(a, b) ==
  IF b = <<>> THEN FALSE
  ELSE IF a = <<>> THEN TRUE
  ELSE IF Code(a[1]) < Code(b[1]) THEN TRUE
  ELSE IF Code(a[1]) > Code(b[1]) THEN FALSE
  ELSE StrLess(Tail(a), Tail(b))

Digit(d) == CASE d = 0 -> "0" [] d = 1 -> "1" [] d = 2 -> "2" [] d = 3 -> "3"
              [] d = 4 -> "4" [] d = 5 -> "5" [] d = 6 -> "6" [] d = 7 -> "7"
              [] d = 8 -> "8" [] OTHER -> "9"

\* printf("%d") of a non-negative integer
RECURSIVE Dec(_)
Dec(n) == IF n < 10 THEN <<Digit(n)>> ELSE Dec(n \div 10) \o <<Digit(n % 10)>>

(***************************************************************************)
(* Host design values: signal bits, wires and cells.                       *)
(***************************************************************************)
NULL == <<>>

\* RTLIL::SigBit of a wire bit and of a constant
WireBit(w, o) == [wire |-> w, offset |-> o, data |-> "-"]
ConstBit(d) == [wire |-> NULL, offset |-> 0, data |-> d]

WireAttr(width, port, keep, init, src) ==
  [width |-> width, port_id |-> port, keep |-> keep, init |-> init, src |-> src]

ClkName == <<"\\", "k">>
EnName == <<"\\", "e">>

\* the data wires a design is drawn from: public and internal names,
\* module ports and internal wires, with and without initial value
WireUniverse ==
  << [name |-> <<"\\", "a">>, attr |-> WireAttr(1, 1, FALSE, "x", TRUE)],
     [name |-> <<"$", "b">>,  attr |-> WireAttr(1, 0, FALSE, "1", FALSE)],
     [name |-> <<"\\", "c">>, attr |-> WireAttr(1, 2, FALSE, "0", TRUE)] >>

DataWires == {WireUniverse[i].name : i \in DOMAIN WireUniverse}
WireIndex(w) == CHOOSE i \in DOMAIN WireUniverse : WireUniverse[i].name = w
DataBits == {WireBit(w, 0) : w \in DataWires}

(***************************************************************************)
(* SigMap (assign_map): canonical representative of every signal bit.      *)
(***************************************************************************)
\* SigMap::operator(): bits the map does not know are their own representative
SigMapApply(am, bit) == IF bit \in DOMAIN am THEN am[bit] ELSE bit

\* SigMap::add of one connection: the class of the first side is merged
\* into the class of the second side
SigMapAdd(am, conn) ==
  LET rf == SigMapApply(am, conn[1])
      rs == SigMapApply(am, conn[2])
      dom == DOMAIN am \cup {conn[1], conn[2], rf, rs}
  IN  [b \in dom |-> IF SigMapApply(am, b) = rf THEN rs ELSE SigMapApply(am, b)]

\* SigMap::set(module): all connections of the module, in order
RECURSIVE SigMapSet(_, _)
SigMapSet(am, cs) ==
  IF cs = <<>> THEN am ELSE SigMapSet(SigMapAdd(am, Head(cs)), Tail(cs))

EmptyMap == [b \in {} |-> b]

\* FfInitVals::set: the init attribute of every wire, by canonical bit
InitValsSet(am, mw) ==
  LET bits == {SigMapApply(am, WireBit(w, 0)) : w \in {x \in DOMAIN mw : mw[x].init # "x"}}
  IN  [b \in bits |->
        LET ws == {x \in DOMAIN mw : mw[x].init # "x" /\ SigMapApply(am, WireBit(x, 0)) = b}
        IN  mw[CHOOSE x \in ws : \A y \in ws : x = y \/ StrLess(x, y)].init]

InitValsOf(iv, bit) == IF bit \in DOMAIN iv THEN iv[bit] ELSE "x"

(***************************************************************************)
(* Signal registry: signal_list / signal_map, map_signal, mark_port.       *)
(***************************************************************************)
GateTypes == {"NONE", "FF", "BUF", "NOT", "AND", "NAND", "OR", "NOR", "XOR", "XNOR",
              "ANDNOT", "ORNOT", "MUX", "NMUX", "AOI3", "OAI3", "AOI4", "OAI4"}

gate_t(id, bit, init) ==
  [id |-> id, type |-> "NONE", in1 |-> -1, in2 |-> -1, in3 |-> -1, in4 |-> -1,
   is_port |-> FALSE, bit |-> bit, init |-> init]

\* map_signal, had it stored a new node on every call
map_signalAlwaysNew(reg, am, iv, bit0, gate_type, in1, in2, in3, in4) ==
  LET bit == SigMapApply(am, bit0)
      fresh == TRUE
      nid == Len(reg.list)
      list1 == IF fresh THEN Append(reg.list, gate_t(nid, bit, InitValsOf(iv, bit)))
               ELSE reg.list
      map1 == IF fresh THEN [b \in DOMAIN reg.map \cup {bit} |->
                               IF b = bit THEN nid ELSE reg.map[b]]
              ELSE reg.map
      idx == map1[bit] + 1
      g0 == list1[idx]
      g1 == [g0 EXCEPT !.type = IF gate_type # "NONE" THEN gate_type ELSE @,
                       !.in1 = IF in1 >= 0 THEN in1 ELSE @,
                       !.in2 = IF in2 >= 0 THEN in2 ELSE @,
                       !.in3 = IF in3 >= 0 THEN in3 ELSE @,
                       !.in4 = IF in4 >= 0 THEN in4 ELSE @]
  IN  [list |-> [list1 EXCEPT ![idx] = g1], map |-> map1, id |-> g1.id]

\* map_signal: the registry after the call and the id it returns
map_signal(reg, am, iv, bit0, gate_type, in1, in2, in3, in4) ==
  LET bit == SigMapApply(am, bit0)
      fresh == bit \notin DOMAIN reg.map
      nid == Len(reg.list)
      list1 == IF fresh THEN Append(reg.list, gate_t(nid, bit, InitValsOf(iv, bit)))
               ELSE reg.list
      map1 == IF fresh THEN [b \in DOMAIN reg.map \cup {bit} |->
                               IF b = bit THEN nid ELSE reg.map[b]]
              ELSE reg.map
      idx == map1[bit] + 1
      g0 == list1[idx]
      g1 == [g0 EXCEPT !.type = IF gate_type # "NONE" THEN gate_type ELSE @,
                       !.in1 = IF in1 >= 0 THEN in1 ELSE @,
                       !.in2 = IF in2 >= 0 THEN in2 ELSE @,
                       !.in3 = IF in3 >= 0 THEN in3 ELSE @,
                       !.in4 = IF in4 >= 0 THEN in4 ELSE @]
  IN  [list |-> [list1 EXCEPT ![idx] = g1], map |-> map1, id |-> g1.id]

\* mark_port, had it marked the registered constants too
mark_portAnyBit(reg, am, sig) ==
  LET hit == {reg.map[SigMapApply(am, sig[i])] + 1 :
                i \in {j \in 1..Len(sig) : SigMapApply(am, sig[j]) \in DOMAIN reg.map}}
  IN  [reg EXCEPT !.list = [k \in 1..Len(reg.list) |->
          IF k \in hit THEN [reg.list[k] EXCEPT !.is_port = TRUE] ELSE reg.list[k]]]

\* mark_port of one signal (a sequence of bits)
mark_port(reg, am, sig) ==
  LET hit == {reg.map[SigMapApply(am, sig[i])] + 1 :
                i \in {j \in 1..Len(sig) :
                         /\ SigMapApply(am, sig[j]).wire # NULL
                         /\ SigMapApply(am, sig[j]) \in DOMAIN reg.map}}
  IN  [reg EXCEPT !.list = [k \in 1..Len(reg.list) |->
          IF k \in hit THEN [reg.list[k] EXCEPT !.is_port = TRUE] ELSE reg.list[k]]]

EmptyReg == [list |-> <<>>, map |-> [b \in {} |-> 0]]

(***************************************************************************)
(* Primitive extractor: extract_cell.                                      *)
(***************************************************************************)
DffTypes == {"$_DFF_N_", "$_DFF_P_"}
DffeTypes == {"$_DFFE_NN_", "$_DFFE_NP_", "$_DFFE_PN_", "$_DFFE_PP_"}
Gate1Types == {"$_BUF_", "$_NOT_"}
Gate2Types == {"$_AND_", "$_NAND_", "$_OR_", "$_NOR_", "$_XOR_", "$_XNOR_",
               "$_ANDNOT_", "$_ORNOT_"}
MuxTypes == {"$_MUX_", "$_NMUX_"}
Gate3Types == {"$_AOI3_", "$_OAI3_"}
Gate4Types == {"$_AOI4_", "$_OAI4_"}

\* the gate_type_t a cell type is recorded as
GateOf(t) ==
  CASE t = "$_BUF_" -> "BUF" [] t = "$_NOT_" -> "NOT" [] t = "$_AND_" -> "AND"
    [] t = "$_NAND_" -> "NAND" [] t = "$_OR_" -> "OR" [] t = "$_NOR_" -> "NOR"
    [] t = "$_XOR_" -> "XOR" [] t = "$_XNOR_" -> "XNOR" [] t = "$_ANDNOT_" -> "ANDNOT"
    [] t = "$_ORNOT_" -> "ORNOT" [] t = "$_MUX_" -> "MUX" [] t = "$_NMUX_" -> "NMUX"
    [] t = "$_AOI3_" -> "AOI3" [] t = "$_OAI3_" -> "OAI3" [] t = "$_AOI4_" -> "AOI4"
    [] t = "$_OAI4_" -> "OAI4" [] OTHER -> "NONE"

\* the flip-flop tests, had they left out the comparison of the clock signal
matching_dffAnyClock(cell, am, ctx) ==
  \/ /\ cell.type \in DffTypes
     /\ ctx.clk_polarity = (cell.type = "$_DFF_P_")
     /\ Len(ctx.en_sig) = 0
  \/ /\ cell.type \in DffeTypes
     /\ ctx.clk_polarity = (cell.type \in {"$_DFFE_PN_", "$_DFFE_PP_"})
     /\ ctx.en_polarity = (cell.type \in {"$_DFFE_NP_", "$_DFFE_PP_"})
     /\ ctx.en_sig = <<SigMapApply(am, cell.conn.E)>>

\* the flip-flop tests of extract_cell: does the cell have the discipline
\* (clk_polarity, clk_sig, en_polarity, en_sig) of the pass
matching_dff(cell, am, ctx) ==
  \/ /\ cell.type \in DffTypes
     /\ ctx.clk_polarity = (cell.type = "$_DFF_P_")
     /\ ctx.clk_sig = <<SigMapApply(am, cell.conn.C)>>
     /\ Len(ctx.en_sig) = 0
  \/ /\ cell.type \in DffeTypes
     /\ ctx.clk_polarity = (cell.type \in {"$_DFFE_PN_", "$_DFFE_PP_"})
     /\ ctx.en_polarity = (cell.type \in {"$_DFFE_NP_", "$_DFFE_PP_"})
     /\ ctx.clk_sig = <<SigMapApply(am, cell.conn.C)>>
     /\ ctx.en_sig = <<SigMapApply(am, cell.conn.E)>>

\* extract_cell: the registry after the call, whether the cell was removed
\* from the module, and the wires that got the keep attribute
extract_cell(reg, am, iv, ctx, cell, keepff) ==
  LET none == [list |-> reg.list, map |-> reg.map, removed |-> FALSE, keep |-> {}]
      in(r, b) == map_signal(r, am, iv, b, "NONE", -1, -1, -1, -1)
      out(r, keep) == [list |-> r.list, map |-> r.map, removed |-> TRUE, keep |-> keep]
  IN
  IF cell.type \in DffTypes \cup DffeTypes THEN
    IF matching_dff(cell, am, ctx) THEN
      LET d == in(reg, cell.conn.D)
          q == map_signal(d, am, iv, cell.conn.Q, "FF", d.id, -1, -1, -1)
      IN  out(q, IF keepff /\ cell.conn.Q.wire # NULL THEN {cell.conn.Q.wire} ELSE {})
    ELSE none
  ELSE IF cell.type \in Gate1Types THEN
    LET a == in(reg, cell.conn.A)
    IN  out(map_signal(a, am, iv, cell.conn.Y, GateOf(cell.type), a.id, -1, -1, -1), {})
  ELSE IF cell.type \in Gate2Types THEN
    LET a == in(reg, cell.conn.A)
        b == in(a, cell.conn.B)
    IN  out(map_signal(b, am, iv, cell.conn.Y, GateOf(cell.type), a.id, b.id, -1, -1), {})
  ELSE IF cell.type \in MuxTypes THEN
    LET a == in(reg, cell.conn.A)
        b == in(a, cell.conn.B)
        s == in(b, cell.conn.S)
    IN  out(map_signal(s, am, iv, cell.conn.Y, GateOf(cell.type), a.id, b.id, s.id, -1), {})
  ELSE IF cell.type \in Gate3Types THEN
    LET a == in(reg, cell.conn.A)
        b == in(a, cell.conn.B)
        c == in(b, cell.conn.C)
    IN  out(map_signal(c, am, iv, cell.conn.Y, GateOf(cell.type), a.id, b.id, c.id, -1), {})
  ELSE IF cell.type \in Gate4Types THEN
    LET a == in(reg, cell.conn.A)
        b == in(a, cell.conn.B)
        c == in(b, cell.conn.C)
        d == in(c, cell.conn.D)
    IN  out(map_signal(d, am, iv, cell.conn.Y, GateOf(cell.type), a.id, b.id, c.id, d.id), {})
  ELSE none

(***************************************************************************)
(* State of the command.                                                   *)
(***************************************************************************)
VARIABLES
  pc,              \* position of the running command
  cmd,             \* "orlo" or "orlo_reint"
  opts,            \* options of the command line
  pending,         \* selected modules that were not processed yet
  processed,       \* modules the command is done with
  args,            \* arguments of the running orlo_module / orlo_module_reint
  module,          \* the current module: name, wires, cells, connections
  assign_map,      \* SigMap of the current module
  initvals,        \* FfInitVals of the current module
  autoidx,         \* global name counter of the host
  map_autoidx,     \* namespace counter of the pass
  signal_list,     \* the registry: gate_t by id
  signal_map,      \* the registry: canonical bit -> id
  clk_polarity, clk_sig, en_polarity, en_sig,
  recover_init,
  cells,           \* the cells the pass still has to extract
  edges, in_edges_count, workpool,   \* locals of handle_loops
  files,           \* the interchange directories: path -> contents
  scratchpad,      \* the design scratchpad: is abc.dir set
  hist,            \* observations: what happened so far
  part,            \* the clock-domain partitioner of execute: its locals
  probe            \* a single call of a function of the plugin: arguments and result

vars == <<pc, cmd, opts, pending, processed, args, module, assign_map, initvals, autoidx, map_autoidx,
          signal_list, signal_map, clk_polarity, clk_sig, en_polarity, en_sig,
          recover_init, cells, edges, in_edges_count, workpool, files, scratchpad, hist,
          part, probe>>

passVars == <<signal_list, signal_map, clk_polarity, clk_sig, en_polarity, en_sig,
              recover_init, cells, map_autoidx>>
loopVars == <<edges, in_edges_count, workpool>>
hostVars == <<module, assign_map, initvals, autoidx>>
cmdVars == <<cmd, opts, pending, processed, args, scratchpad>>
\* everything a command works on, and what stands beside it
mainVars == <<pc, cmdVars, hostVars, passVars, loopVars, files, hist>>
auxVars == <<part, probe>>
NoPart == [phase |-> "off"]
NoProbe == [fn |-> "none"]

(***************************************************************************)
(* Loop breaker: handle_loops.                                             *)
(***************************************************************************)
IsComb(g) == g.type # "NONE" /\ g.type # "FF"

\* the fan-ins of a gate that handle_loops turns into edges (duplicates once)
EdgeFanIns(g) ==
  (IF g.in1 >= 0 THEN {g.in1} ELSE {})
  \cup (IF g.in2 >= 0 /\ g.in2 # g.in1 THEN {g.in2} ELSE {})
  \cup (IF g.in3 >= 0 /\ g.in3 # g.in2 /\ g.in3 # g.in1 THEN {g.in3} ELSE {})
  \cup (IF g.in4 >= 0 /\ g.in4 # g.in3 /\ g.in4 # g.in2 /\ g.in4 # g.in1 THEN {g.in4} ELSE {})

\* the number of increments, had a repeated fan-in been counted again
EdgeCountAll(g) ==
  (IF g.in1 >= 0 THEN 1 ELSE 0) + (IF g.in2 >= 0 THEN 1 ELSE 0)
  + (IF g.in3 >= 0 THEN 1 ELSE 0) + (IF g.in4 >= 0 THEN 1 ELSE 0)

\* the number of increments of in_edges_count[g.id]
EdgeCount(g) ==
  (IF g.in1 >= 0 THEN 1 ELSE 0)
  + (IF g.in2 >= 0 /\ g.in2 # g.in1 THEN 1 ELSE 0)
  + (IF g.in3 >= 0 /\ g.in3 # g.in2 /\ g.in3 # g.in1 THEN 1 ELSE 0)
  + (IF g.in4 >= 0 /\ g.in4 # g.in3 /\ g.in4 # g.in2 /\ g.in4 # g.in1 THEN 1 ELSE 0)

\* the edge map, the counters and the workpool handle_loops starts with
InitialEdges(sl) ==
  LET comb == {k \in 1..Len(sl) : IsComb(sl[k])}
      keys == UNION {EdgeFanIns(sl[k]) : k \in comb}
  IN  [u \in keys |-> {sl[k].id : k \in {j \in comb : u \in EdgeFanIns(sl[j])}}]

InitialCounts(sl) == [k \in 1..Len(sl) |-> IF IsComb(sl[k]) THEN EdgeCount(sl[k]) ELSE 0]

\* the workpool, had it been seeded with the unconnected nodes only
InitialWorkpoolNoneOnly(sl) == {sl[k].id : k \in {j \in 1..Len(sl) : sl[j].type = "NONE"}}

InitialWorkpool(sl) == {sl[k].id : k \in {j \in 1..Len(sl) : ~IsComb(sl[j])}}

\* edges[id] of a std::map: a missing key reads as the empty set
EdgesAt(e, id) == IF id \in DOMAIN e THEN e[id] ELSE {}

EdgesErase(e, id) == [u \in DOMAIN e \ {id} |-> e[u]]

NumEdges(e) ==
  LET RECURSIVE Sum(_)
      Sum(K) == IF K = {} THEN 0
                ELSE LET u == Min(K) IN Cardinality(e[u]) + Sum(K \ {u})
  IN  Sum(DOMAIN e)

\* the comparison, had it put the internal names first
PreferBreakInternalFirst(e, sl, id1, id2) ==
  LET w1 == sl[id1 + 1].bit.wire
      w2 == sl[id2 + 1].bit.wire
  IN  IF w1 = NULL THEN id2
      ELSE IF w2 = NULL THEN id1
      ELSE IF w1[1] = "$" /\ w2[1] = "\\" THEN id1
      ELSE IF w1[1] = "\\" /\ w2[1] = "$" THEN id2
      ELSE IF Cardinality(e[id1]) < Cardinality(e[id2]) THEN id2
      ELSE IF Cardinality(e[id1]) > Cardinality(e[id2]) THEN id1
      ELSE IF StrLess(w2, w1) THEN id2
      ELSE id1

\* the comparison chain of the selection loop: the candidate kept after
\* looking at key id2 while id1 is the current candidate
PreferBreak(e, sl, id1, id2) ==
  LET w1 == sl[id1 + 1].bit.wire
      w2 == sl[id2 + 1].bit.wire
  IN  IF w1 = NULL THEN id2
      ELSE IF w2 = NULL THEN id1
      ELSE IF w1[1] = "$" /\ w2[1] = "\\" THEN id2
      ELSE IF w1[1] = "\\" /\ w2[1] = "$" THEN id1
      ELSE IF Cardinality(e[id1]) < Cardinality(e[id2]) THEN id2
      ELSE IF Cardinality(e[id1]) > Cardinality(e[id2]) THEN id1
      ELSE IF StrLess(w2, w1) THEN id2
      ELSE id1

RECURSIVE SelectFrom(_, _, _, _)
SelectFrom(e, sl, id1, keys) ==
  IF keys = <<>> THEN id1
  ELSE SelectFrom(e, sl, PreferBreak(e, sl, id1, Head(keys)), Tail(keys))

\* the node the inner loop picks: starts at the first key, visits every key
SelectBreak(e, sl) == SelectFrom(e, sl, Min(DOMAIN e), SortedSeq(DOMAIN e))

\* the fan-in rewrite, had it looked at in1 only
RewriteFanInFirst(g, id1, id3) ==
  [g EXCEPT !.in1 = IF @ = id1 THEN id3 ELSE @]

\* the fan-in rewrite of one successor
RewriteFanIn(g, id1, id3) ==
  [g EXCEPT !.in1 = IF @ = id1 THEN id3 ELSE @,
            !.in2 = IF @ = id1 THEN id3 ELSE @,
            !.in3 = IF @ = id1 THEN id3 ELSE @,
            !.in4 = IF @ = id1 THEN id3 ELSE @]

\* a copy in place of the swap: id1 keeps its successors
SwapEdgesCopy(e, id1, id3) ==
  [u \in DOMAIN e \cup {id3} |-> IF u = id3 THEN e[id1] ELSE e[u]]

\* edges[id1].swap(edges[id3]) where id3 is a new key
SwapEdges(e, id1, id3) ==
  [u \in DOMAIN e \cup {id3} |-> IF u = id3 THEN e[id1] ELSE IF u = id1 THEN {} ELSE e[u]]

LoopWireName(n) == <<"$", "a", "b", "c", "l", "o", "o", "p", "$">> \o Dec(n)

\* where the caller of handle_loops continues
AfterLoops == IF cmd = "orlo" THEN "emit" ELSE "reintegrate"

HandleLoopsBegin ==
  /\ pc = "handle_loops"
  /\ edges' = InitialEdges(signal_list)
  /\ in_edges_count' = InitialCounts(signal_list)
  /\ workpool' = InitialWorkpool(signal_list)
  /\ hist' = [hist EXCEPT !.edges0 = NumEdges(InitialEdges(signal_list)),
                          !.nodes0 = Len(signal_list),
                          !.list0 = signal_list,
                          !.conns0 = module.conns,
                          !.popped = <<>>, !.breaks = <<>>, !.skips = 0]
  /\ pc' = "hl_outer"
  /\ UNCHANGED <<cmdVars, hostVars, passVars, files>>
  /\ UNCHANGED auxVars

\* one iteration of the outer loop up to the test of the inner loop
HandleLoopsPop ==
  /\ pc = "hl_outer"
  /\ workpool # {}
  /\ LET id == Min(workpool)
         succ == EdgesAt(edges, id)
         bad == \E id2 \in succ : in_edges_count[id2 + 1] <= 0
         cnt == [k \in 1..Len(in_edges_count) |->
                   IF (k - 1) \in succ THEN in_edges_count[k] - 1 ELSE in_edges_count[k]]
         wp == (workpool \ {id}) \cup {id2 \in succ : cnt[id2 + 1] = 0}
         e == EdgesErase(edges, id)
     IN  IF bad
         THEN /\ pc' = "abort"
              /\ UNCHANGED <<loopVars, hist>>
         ELSE /\ in_edges_count' = cnt
              /\ workpool' = wp
              /\ edges' = e
              /\ hist' = [hist EXCEPT !.popped = Append(@, id)]
              /\ pc' = IF wp = {} /\ DOMAIN e # {} THEN "hl_inner" ELSE "hl_outer"
  /\ UNCHANGED <<cmdVars, hostVars, passVars, files>>
  /\ UNCHANGED auxVars

\* the inner loop picked a key without successors: erase it and go on
HandleLoopsSkip ==
  /\ pc = "hl_inner"
  /\ LET id1 == SelectBreak(edges, signal_list)
         e == EdgesErase(edges, id1)
     IN  /\ edges[id1] = {}
         /\ edges' = e
         /\ pc' = IF DOMAIN e # {} THEN "hl_inner" ELSE "hl_outer"
  /\ hist' = [hist EXCEPT !.skips = @ + 1]
  /\ UNCHANGED <<cmdVars, hostVars, passVars, in_edges_count, workpool, files>>
  /\ UNCHANGED auxVars

\* the inner loop picked a node with successors: break the loop there
HandleLoopsBreak ==
  /\ pc = "hl_inner"
  /\ Len(signal_list) < NodeCap
  /\ LET id1 == SelectBreak(edges, signal_list)
         wire == LoopWireName(autoidx)
         r == map_signal([list |-> signal_list, map |-> signal_map], assign_map, initvals,
                         WireBit(wire, 0), "NONE", -1, -1, -1, -1)
         id3 == r.id
         succ == edges[id1]
         sl == [k \in 1..Len(r.list) |->
                  LET g == IF (k - 1) \in succ THEN RewriteFanIn(r.list[k], id1, id3)
                           ELSE r.list[k]
                  IN  IF k - 1 = id1 \/ k - 1 = id3 THEN [g EXCEPT !.is_port = TRUE] ELSE g]
     IN  /\ edges[id1] # {}
         /\ IF signal_list[id1 + 1].bit.wire = NULL \/ id3 # Len(in_edges_count)
            THEN /\ pc' = "abort"
                 /\ UNCHANGED <<hostVars, signal_list, signal_map, loopVars, hist>>
            ELSE /\ autoidx' = autoidx + 1
                 /\ module' = [module EXCEPT
                       !.wires = [w \in DOMAIN @ \cup {wire} |->
                                    IF w = wire THEN WireAttr(1, 0, FALSE, "x", FALSE) ELSE @[w]],
                       !.conns = Append(@, <<r.list[id3 + 1].bit, r.list[id1 + 1].bit>>)]
                 /\ signal_list' = sl
                 /\ signal_map' = r.map
                 /\ in_edges_count' = Append(in_edges_count, 0)
                 /\ workpool' = workpool \cup {id3}
                 /\ edges' = SwapEdges(edges, id1, id3)
                 /\ hist' = [hist EXCEPT !.breaks = Append(@, id1)]
                 /\ pc' = "hl_outer"
                 /\ UNCHANGED <<assign_map, initvals>>
  /\ UNCHANGED <<cmdVars, clk_polarity, clk_sig, en_polarity, en_sig,
                 recover_init, cells, map_autoidx, files>>
  /\ UNCHANGED auxVars

\* the outer loop ends: the workpool is empty
HandleLoopsEnd ==
  /\ pc = "hl_outer"
  /\ workpool = {}
  /\ pc' = AfterLoops
  /\ hist' = [hist EXCEPT !.loops_done = @ + 1]
  /\ UNCHANGED <<cmdVars, hostVars, passVars, loopVars, files>>
  /\ UNCHANGED auxVars

(***************************************************************************)
(* Name remapping: remap_name.                                             *)
(***************************************************************************)
IsDigit(c) == c \in {"0", "1", "2", "3", "4", "5", "6", "7", "8", "9"}

\* s.compare(0, Len(p), p) == 0
StartsWith(s, p) == Len(s) >= Len(p) /\ SubSeq(s, 1, Len(p)) = p

\* s.erase(0, n) and s.substr(n)
Drop(s, n) == SubSeq(s, n + 1, Len(s))

\* s.find_first_not_of("0123456789"): 0-based position, -1 for npos
FirstNonDigit(s) ==
  LET P == {i \in 1..Len(s) : ~IsDigit(s[i])}
  IN  IF P = {} THEN -1 ELSE Min(P) - 1

\* atoi of a string that starts with a digit
RECURSIVE AtoiFrom(_, _)
AtoiFrom(s, acc) ==
  IF s = <<>> \/ ~IsDigit(s[1]) THEN acc
  ELSE AtoiFrom(Tail(s), acc * 10 + (Code(s[1]) - 48))

Atoi(s) == AtoiFrom(s, 0)

AbcPrefix(k) == <<"$", "a", "b", "c", "$">> \o Dec(k) \o <<"$">>

NewPrefix == <<"n", "e", "w", "_">>
YsPrefix == <<"y", "s", "_", "_", "n">>

\* the name the emitter writes for node id: ys__n%d
YsName(id) == YsPrefix \o Dec(id)

\* remap_name: the remapped name, the original wire it found (NULL if
\* none), and whether the call threw (std::string::at on an empty string)
remap_name(abc_name, sl, mw, k) ==
  LET s0 == Drop(abc_name, 1)
      isnew == StartsWith(s0, NewPrefix)
      s1 == IF isnew THEN Drop(s0, 4) ELSE s0
      isys == StartsWith(s1, YsPrefix)
      s2 == IF isys THEN Drop(s1, 5) ELSE s1
      foreign == [name |-> AbcPrefix(k) \o Drop(abc_name, 1), orig_wire |-> NULL,
                  threw |-> FALSE]
  IN  IF ~isys THEN foreign
      ELSE IF s2 = <<>> THEN [name |-> <<>>, orig_wire |-> NULL, threw |-> TRUE]
      ELSE IF ~IsDigit(s2[1]) THEN foreign
      ELSE
        LET sid == Atoi(s2)
            postfix_start == FirstNonDigit(s2)
            postfix == IF postfix_start # -1 THEN Drop(s2, postfix_start) ELSE <<>>
        IN  IF sid < Len(sl) /\ sl[sid + 1].bit.wire # NULL
            THEN LET bit == sl[sid + 1].bit
                 IN  [name |-> AbcPrefix(k) \o Drop(bit.wire, 1)
                               \o (IF mw[bit.wire].width # 1
                                   THEN <<"[">> \o Dec(bit.offset) \o <<"]">> ELSE <<>>)
                               \o (IF isnew THEN <<"_", "n", "e", "w">> ELSE <<>>)
                               \o postfix,
                      orig_wire |-> bit.wire, threw |-> FALSE]
            ELSE foreign

(***************************************************************************)
(* Interchange emitter: the input.blif that orlo_module writes.            *)
(***************************************************************************)
\* the covers with the two data columns of the multiplexers exchanged
CoverMuxExchanged(t) ==
  CASE t = "BUF" -> << <<"1">> >>
    [] t = "NOT" -> << <<"0">> >>
    [] t = "AND" -> << <<"1", "1">> >>
    [] t = "NAND" -> << <<"0", "-">>, <<"-", "0">> >>
    [] t = "OR" -> << <<"-", "1">>, <<"1", "-">> >>
    [] t = "NOR" -> << <<"0", "0">> >>
    [] t = "XOR" -> << <<"0", "1">>, <<"1", "0">> >>
    [] t = "XNOR" -> << <<"0", "0">>, <<"1", "1">> >>
    [] t = "ANDNOT" -> << <<"1", "0">> >>
    [] t = "ORNOT" -> << <<"1", "-">>, <<"-", "0">> >>
    [] t = "MUX" -> << <<"-", "1", "0">>, <<"1", "-", "1">> >>
    [] t = "NMUX" -> << <<"-", "0", "0">>, <<"0", "-", "1">> >>
    [] t = "AOI3" -> << <<"-", "0", "0">>, <<"0", "-", "0">> >>
    [] t = "OAI3" -> << <<"0", "0", "-">>, <<"-", "-", "0">> >>
    [] t = "AOI4" -> << <<"-", "0", "-", "0">>, <<"-", "0", "0", "-">>,
                        <<"0", "-", "-", "0">>, <<"0", "-", "0", "-">> >>
    [] t = "OAI4" -> << <<"0", "0", "-", "-">>, <<"-", "-", "0", "0">> >>
    [] OTHER -> <<>>

\* the rows written after the .names line of a gate (input columns only;
\* every row ends in " 1")
Cover(t) ==
  CASE t = "BUF" -> << <<"1">> >>
    [] t = "NOT" -> << <<"0">> >>
    [] t = "AND" -> << <<"1", "1">> >>
    [] t = "NAND" -> << <<"0", "-">>, <<"-", "0">> >>
    [] t = "OR" -> << <<"-", "1">>, <<"1", "-">> >>
    [] t = "NOR" -> << <<"0", "0">> >>
    [] t = "XOR" -> << <<"0", "1">>, <<"1", "0">> >>
    [] t = "XNOR" -> << <<"0", "0">>, <<"1", "1">> >>
    [] t = "ANDNOT" -> << <<"1", "0">> >>
    [] t = "ORNOT" -> << <<"1", "-">>, <<"-", "0">> >>
    [] t = "MUX" -> << <<"1", "-", "0">>, <<"-", "1", "1">> >>
    [] t = "NMUX" -> << <<"0", "-", "0">>, <<"-", "0", "1">> >>
    [] t = "AOI3" -> << <<"-", "0", "0">>, <<"0", "-", "0">> >>
    [] t = "OAI3" -> << <<"0", "0", "-">>, <<"-", "-", "0">> >>
    [] t = "AOI4" -> << <<"-", "0", "-", "0">>, <<"-", "0", "0", "-">>,
                        <<"0", "-", "-", "0">>, <<"0", "-", "0", "-">> >>
    [] t = "OAI4" -> << <<"0", "0", "-", "-">>, <<"-", "-", "0", "0">> >>
    [] OTHER -> <<>>

\* the number of fan-in names on the .names line of a gate
Arity(t) ==
  CASE t \in {"BUF", "NOT", "FF"} -> 1
    [] t \in {"AND", "NAND", "OR", "NOR", "XOR", "XNOR", "ANDNOT", "ORNOT"} -> 2
    [] t \in {"MUX", "NMUX", "AOI3", "OAI3"} -> 3
    [] t \in {"AOI4", "OAI4"} -> 4
    [] OTHER -> 0

\* the fan-in ids on the line of a gate: in1 .. in<arity>
FanInLine(g) == SubSeq(<<g.in1, g.in2, g.in3, g.in4>>, 1, Arity(g.type))

\* BLIF semantics of a cover: the output is 1 iff some row matches
RowMatches(row, ins) ==
  \A i \in 1..Len(row) : row[i] = "-" \/ row[i] = (IF ins[i] THEN "1" ELSE "0")

EvalCover(rows, ins) == \E r \in 1..Len(rows) : RowMatches(rows[r], ins)

\* the function of each gate, as the stdcells.genlib of the pass states it
GateFn(t, A, B, C, D) ==
  CASE t = "BUF" -> A
    [] t = "NOT" -> ~A
    [] t = "AND" -> A /\ B
    [] t = "NAND" -> ~(A /\ B)
    [] t = "OR" -> A \/ B
    [] t = "NOR" -> ~(A \/ B)
    [] t = "XOR" -> (A /\ ~B) \/ (~A /\ B)
    [] t = "XNOR" -> (A /\ B) \/ (~A /\ ~B)
    [] t = "ANDNOT" -> A /\ ~B
    [] t = "ORNOT" -> A \/ ~B
    [] t = "AOI3" -> ~((A /\ B) \/ C)
    [] t = "OAI3" -> ~((A \/ B) /\ C)
    [] t = "AOI4" -> ~((A /\ B) \/ (C /\ D))
    [] t = "OAI4" -> ~((A \/ B) /\ (C \/ D))
    [] t = "MUX" -> (A /\ B) \/ (C /\ B) \/ (~C /\ A)
    [] t = "NMUX" -> ~((A /\ B) \/ (C /\ B) \/ (~C /\ A))
    [] OTHER -> FALSE

\* the nodes written to the .inputs line
IsBlifInput(g) == g.is_port /\ g.type = "NONE"

\* every boundary node
IsBoundaryNode(g) == g.is_port

\* the nodes written to the .outputs line
IsBlifOutput(g) == g.is_port /\ g.type # "NONE"

\* the contents of input.blif for a registry
EmitBlif(sl) ==
  LET isIn(g) == IsBlifInput(g)
      isOut(g) == IsBlifOutput(g)
      isConst(g) == g.bit.wire = NULL
      isGate(g) == g.type # "NONE"
      ins == SelectSeq(sl, isIn)
      outs == SelectSeq(sl, isOut)
      cs == SelectSeq(sl, isConst)
      gs == SelectSeq(sl, isGate)
  IN  [inputs |-> [i \in 1..Len(ins) |-> YsName(ins[i].id)],
       dummy_input |-> Len(ins) = 0,
       outputs |-> [i \in 1..Len(outs) |-> YsName(outs[i].id)],
       consts |-> [i \in 1..Len(cs) |-> [out |-> YsName(cs[i].id), one |-> cs[i].bit.data = "1"]],
       body |-> [i \in 1..Len(gs) |->
                   LET g == gs[i]
                       fi == FanInLine(g)
                   IN  IF g.type = "FF"
                       THEN [kind |-> "latch", ins |-> <<YsName(g.in1)>>, out |-> YsName(g.id),
                             rows |-> <<>>,
                             init |-> IF g.init = "1" THEN 1 ELSE IF g.init = "0" THEN 0 ELSE 2]
                       ELSE [kind |-> "names", ins |-> [j \in 1..Len(fi) |-> YsName(fi[j])],
                             out |-> YsName(g.id), rows |-> Cover(g.type), init |-> 2]]]

\* recover_init after the emitter ran: a flip-flop with initial value 0 or 1
EmitRecoverInit(sl) == \E k \in 1..Len(sl) : sl[k].type = "FF" /\ sl[k].init \in {"0", "1"}

(***************************************************************************)
(* The external tool and the BLIF parser (collaborators): the tool maps    *)
(* every gate of input.blif to the library gate with the same cover, keeps *)
(* the names of inputs, outputs and latch outputs and renames every other  *)
(* net; the parser turns the result into a module "netlist".               *)
(***************************************************************************)
LibGates == {"BUF", "NOT", "AND", "NAND", "OR", "NOR", "XOR", "XNOR", "ANDNOT", "ORNOT",
             "MUX", "NMUX", "AOI3", "OAI3", "AOI4", "OAI4"}

GateOfCover(rows) == CHOOSE t \in LibGates : Cover(t) = rows

PortNames(t) ==
  CASE t \in {"MUX", "NMUX"} -> <<"A", "B", "S">>
    [] OTHER -> <<"A", "B", "C", "D">>

Escaped(n) == <<"\\">> \o n

ToolOutput(blif) ==
  LET latches == {i \in 1..Len(blif.body) : blif.body[i].kind = "latch"}
      kept == Range(blif.inputs) \cup Range(blif.outputs) \cup {blif.body[i].out : i \in latches}
      net(n) == IF n \in kept THEN Escaped(n) ELSE Escaped(<<"n">> \o Drop(n, 5))
      gate(i) ==
        LET b == blif.body[i]
            t == IF b.kind = "latch" THEN "DFF" ELSE GateOfCover(b.rows)
            pn == IF b.kind = "latch" THEN <<"D">> ELSE PortNames(t)
            on == IF b.kind = "latch" THEN "Q" ELSE "Y"
            ports == {pn[j] : j \in 1..Len(b.ins)} \cup {on}
        IN  [name |-> <<"$", "g">> \o Dec(i), type |-> t,
             conn |-> [p \in ports |->
                         IF p = on THEN net(b.out)
                         ELSE net(b.ins[CHOOSE j \in 1..Len(b.ins) : pn[j] = p])]]
      const(i) ==
        [name |-> <<"$", "c">> \o Dec(i),
         type |-> IF blif.consts[i].one THEN "ONE" ELSE "ZERO",
         conn |-> [p \in {"Y"} |-> net(blif.consts[i].out)]]
      cs == [i \in 1..Len(blif.consts) |-> const(i)] \o [i \in 1..Len(blif.body) |-> gate(i)]
  IN  [wires |-> {Escaped(n) : n \in Range(blif.inputs) \cup Range(blif.outputs)}
                 \cup (IF blif.dummy_input
                       THEN {Escaped(<<"d", "u", "m", "m", "y", "_", "i", "n", "p", "u", "t">>)}
                       ELSE {})
                 \cup UNION {{cs[i].conn[p] : p \in DOMAIN cs[i].conn} : i \in 1..Len(cs)},
       init |-> [w \in {net(blif.body[i].out) : i \in {j \in latches : blif.body[j].init # 2}} |->
                   LET i == CHOOSE j \in latches : net(blif.body[j].out) = w
                   IN  IF blif.body[i].init = 1 THEN "1" ELSE "0"],
       cells |-> cs,
       conns |-> <<>>]

(***************************************************************************)
(* Reintegrator: orlo_reintegrate.                                         *)
(***************************************************************************)
\* the host cell type a builtin gate of the tool's output is translated to
HostGate(t) ==
  CASE t = "NOT" -> "$_NOT_" [] t = "AND" -> "$_AND_" [] t = "NAND" -> "$_NAND_"
    [] t = "OR" -> "$_OR_" [] t = "NOR" -> "$_NOR_" [] t = "XOR" -> "$_XOR_"
    [] t = "XNOR" -> "$_XNOR_" [] t = "ANDNOT" -> "$_ANDNOT_" [] t = "ORNOT" -> "$_ORNOT_"
    [] t = "MUX" -> "$_MUX_" [] t = "NMUX" -> "$_NMUX_" [] t = "AOI3" -> "$_AOI3_"
    [] t = "OAI3" -> "$_OAI3_" [] t = "AOI4" -> "$_AOI4_" [] t = "OAI4" -> "$_OAI4_"
    [] OTHER -> t

\* the flip-flop type without enable for every discipline
FfTypeWithoutEnable(ctx) == IF ctx.clk_polarity THEN "$_DFF_P_" ELSE "$_DFF_N_"

\* the flip-flop type the reintegrator creates for the discipline of the pass
FfType(ctx) ==
  IF Len(ctx.en_sig) = 0
  THEN (IF ctx.clk_polarity THEN "$_DFF_P_" ELSE "$_DFF_N_")
  ELSE (IF ctx.clk_polarity
        THEN (IF ctx.en_polarity THEN "$_DFFE_PP_" ELSE "$_DFFE_PN_")
        ELSE (IF ctx.en_polarity THEN "$_DFFE_NP_" ELSE "$_DFFE_NN_"))

\* the connection that one cell of the tool's output becomes, if it becomes
\* a connection (constants and buffers), as a sequence of 0 or 1 connections
ReintConn(c, rn(_)) ==
  IF c.type \in {"ZERO", "ONE", "_const0_", "_const1_"}
  THEN << <<WireBit(rn(c.conn.Y), 0), ConstBit(IF c.type \in {"ZERO", "_const0_"} THEN "0" ELSE "1")>> >>
  ELSE IF c.type = "BUF"
  THEN << <<WireBit(rn(c.conn.Y), 0), WireBit(rn(c.conn.A), 0)>> >>
  ELSE <<>>

\* the host cell that one cell of the tool's output becomes, if any
ReintCell(c, rn(_), ctx) ==
  IF c.type \in {"ZERO", "ONE", "_const0_", "_const1_", "BUF"} THEN <<>>
  ELSE IF c.type \in {"DFF", "_dff_"}
  THEN << [name |-> rn(c.name), type |-> FfType(ctx),
           conn |-> [p \in {"D", "Q", "C"} \cup (IF Len(ctx.en_sig) = 0 THEN {} ELSE {"E"}) |->
                       IF p = "C" THEN ctx.clk_sig[1]
                       ELSE IF p = "E" THEN ctx.en_sig[1]
                       ELSE WireBit(rn(c.conn[p]), 0)]] >>
  ELSE << [name |-> rn(c.name), type |-> HostGate(c.type),
           conn |-> [p \in DOMAIN c.conn |-> WireBit(rn(c.conn[p]), 0)]] >>

RECURSIVE Concat(_)
Concat(ss) == IF ss = <<>> THEN <<>> ELSE Head(ss) \o Concat(Tail(ss))

FlatMap(s, F(_)) == Concat([i \in 1..Len(s) |-> F(s[i])])

\* the two sides of a connection (RTLIL::SigSig): first is the side that is
\* assigned, second the side a constant is put on
ConnDriven(c) == c[1]
ConnDriver(c) == c[2]

\* a boundary connection with the original bit first for every node
BoundaryConnBitFirst(si, w) == <<si.bit, w>>

\* the connection made for boundary node si, w being the remapped wire
BoundaryConn(si, w) == IF si.type # "NONE" THEN <<si.bit, w>> ELSE <<w, si.bit>>

\* the connections made for the boundary nodes, in registry order
BoundaryConns(sl, rn(_)) ==
  LET one(si) ==
        IF ~si.is_port THEN <<>>
        ELSE << BoundaryConn(si, WireBit(rn(Escaped(YsName(si.id))), 0)) >>
  IN  FlatMap(sl, one)

\* orlo_reintegrate on a parsed output: the module afterwards, or a failed
\* assertion (a name that exists already, a missing wire, no clock)
orlo_reintegrate(mod, mapped, sl, ctx, k, recover) ==
  LET rnr(n) == remap_name(n, sl, mod.wires, k)
      rn(n) == rnr(n).name
      newnames == {rn(w) : w \in mapped.wires}
      clash == \/ \E w \in mapped.wires : rnr(w).threw \/ rn(w) \in DOMAIN mod.wires
               \/ \E w1, w2 \in mapped.wires : w1 # w2 /\ rn(w1) = rn(w2)
      noclk == \E i \in 1..Len(mapped.cells) :
                  mapped.cells[i].type \in {"DFF", "_dff_"} /\ Len(ctx.clk_sig) # 1
      missing == \E i \in 1..Len(sl) : sl[i].is_port /\ rn(Escaped(YsName(sl[i].id))) \notin newnames
      src(n) == \E w \in mapped.wires :
                  rn(w) = n /\ rnr(w).orig_wire # NULL /\ mod.wires[rnr(w).orig_wire].src
      ini(n) == IF recover /\ \E w \in DOMAIN mapped.init : rn(w) = n
                THEN mapped.init[CHOOSE w \in DOMAIN mapped.init : rn(w) = n] ELSE "x"
      conv(c) == ReintConn(c, rn)
      mconn(c) == << <<WireBit(rn(c[1]), 0), WireBit(rn(c[2]), 0)>> >>
      cell(c) == ReintCell(c, rn, ctx)
  IN  IF clash \/ noclk \/ missing THEN [ok |-> FALSE, module |-> mod]
      ELSE [ok |-> TRUE,
            module |-> [mod EXCEPT
              !.wires = [w \in DOMAIN @ \cup newnames |->
                           IF w \in newnames THEN WireAttr(1, 0, FALSE, ini(w), src(w)) ELSE @[w]],
              !.cells = @ \o FlatMap(mapped.cells, cell),
              !.conns = @ \o FlatMap(mapped.cells, conv) \o FlatMap(mapped.conns, mconn)
                         \o BoundaryConns(sl, rn)]]

(***************************************************************************)
(* Pass set-up: orlo_module2name, the clock option, the command script.    *)
(***************************************************************************)
ModNameMax == 252

\* std::regex_replace(modname, orlo_badchars, "-")
ReplaceBadChars(n) == [i \in 1..Len(n) |-> IF n[i] \in {"'", "$", "\\"} THEN "-" ELSE n[i]]

\* the number of leading '-' characters
LeadingDashes(n) ==
  LET P == {i \in 1..Len(n) : n[i] # "-"}
  IN  IF P = {} THEN Len(n) ELSE Min(P) - 1

\* orlo_module2name without the top directory: <module>_<domain>
orlo_module2name(modname, clk_domain) ==
  LET m == ReplaceBadChars(modname)
      idx == LeadingDashes(m)
      cut == SubSeq(m, idx + 1, IF Len(m) - idx > ModNameMax THEN idx + ModNameMax ELSE Len(m))
  IN  cut \o <<"_">> \o Dec(clk_domain)

\* position of the first ',' (0-based), -1 for npos
FindComma(s) ==
  LET P == {i \in 1..Len(s) : s[i] = ","}
  IN  IF P = {} THEN -1 ELSE Min(P) - 1

\* module->wire(escape_id(name)) as a signal: empty if there is no such wire
WireSig(mod, am, n) ==
  IF Escaped(n) \in DOMAIN mod.wires THEN <<SigMapApply(am, WireBit(Escaped(n), 0))>> ELSE <<>>

Dollar == <<"$">>

\* the clock discipline orlo_module / orlo_module_reint work with: parsed
\* from clk_str, or the one the caller set when clk_str is "$"
ParseClk(clk_str, mod, am, cur) ==
  LET base == IF clk_str # Dollar
              THEN [clk_polarity |-> TRUE, clk_sig |-> <<>>, en_polarity |-> TRUE, en_sig |-> <<>>]
              ELSE cur
      pos == FindComma(clk_str)
      en0 == IF pos # -1 THEN Drop(clk_str, pos + 1) ELSE <<>>
      clk0 == IF pos # -1 THEN SubSeq(clk_str, 1, pos) ELSE clk_str
      en_neg == en0 # <<>> /\ en0[1] = "!"
      en1 == IF en_neg THEN Drop(en0, 1) ELSE en0
      clk_neg == clk0 # <<>> /\ clk0[1] = "!"
      clk1 == IF clk_neg THEN Drop(clk0, 1) ELSE clk0
  IN  IF clk_str = <<>> \/ clk_str = Dollar THEN base
      ELSE [clk_polarity |-> ~clk_neg,
            clk_sig |-> WireSig(mod, am, clk1),
            en_polarity |-> ~en_neg,
            en_sig |-> IF pos # -1 THEN WireSig(mod, am, en1) ELSE <<>>]

Ctx == [clk_polarity |-> clk_polarity, clk_sig |-> clk_sig,
        en_polarity |-> en_polarity, en_sig |-> en_sig]

NoFiles == [d \in {} |-> 0]
NoBlif == [inputs |-> <<>>, dummy_input |-> FALSE, outputs |-> <<>>, consts |-> <<>>,
           body |-> <<>>]
NoNetlist == [wires |-> {}, init |-> [w \in {} |-> "x"], cells |-> <<>>, conns |-> <<>>]
NoDir == [script |-> FALSE, input |-> NoBlif, has_output |-> FALSE, output |-> NoNetlist]

FilesPut(f, d, v) == [x \in DOMAIN f \cup {d} |-> IF x = d THEN v ELSE f[x]]

CellNames(cs) == [i \in 1..Len(cs) |-> cs[i].name]

CellByName(cs, n) == cs[CHOOSE i \in 1..Len(cs) : cs[i].name = n]

RemoveCell(cs, n) == SelectSeq(cs, LAMBDA c : c.name # n)

NoModule == [name |-> <<>>, wires |-> [w \in {} |-> 0], cells |-> <<>>, conns |-> <<>>,
             processes |-> FALSE]

(***************************************************************************)
(* The commands: OrloPass::execute and OrloReintegratePass::execute with   *)
(* orlo_module and orlo_module_reint.                                      *)
(***************************************************************************)
\* split_tokens: the maximal non-empty runs of characters other than sep
RECURSIVE SplitFrom(_, _, _)
SplitFrom(s, sep, cur) ==
  IF s = <<>> THEN (IF cur = <<>> THEN <<>> ELSE <<cur>>)
  ELSE IF s[1] = sep THEN (IF cur = <<>> THEN <<>> ELSE <<cur>>) \o SplitFrom(Tail(s), sep, <<>>)
  ELSE SplitFrom(Tail(s), sep, Append(cur, s[1]))

split_tokens(s, sep) == SplitFrom(s, sep, <<>>)

\* the -luts loop: lut_costs after the tokens, and whether the syntax was valid
RECURSIVE LutsParse(_, _)
LutsParse(toks, lut_costs) ==
  IF toks = <<>> THEN [ok |-> TRUE, costs |-> lut_costs]
  ELSE LET parts == split_tokens(Head(toks), ":")
       IN  IF Len(parts) = 0 /\ lut_costs # <<>>
           THEN LutsParse(Tail(toks), Append(lut_costs, lut_costs[Len(lut_costs)]))
           ELSE IF Len(parts) = 1
           THEN LutsParse(Tail(toks), Append(lut_costs, Atoi(parts[1])))
           ELSE IF Len(parts) = 2
           THEN LutsParse(Tail(toks),
                  lut_costs \o [i \in 1..(IF Atoi(parts[1]) > Len(lut_costs)
                                          THEN Atoi(parts[1]) - Len(lut_costs) ELSE 0) |->
                                  Atoi(parts[2])])
           ELSE [ok |-> FALSE, costs |-> lut_costs]

\* lut_costs after -lut and -luts were handled
LutCosts(o) ==
  IF o.luts # <<>> THEN LutsParse(split_tokens(o.luts, ","), <<>>)
  ELSE [ok |-> TRUE, costs |-> [i \in 1..o.lut |-> 1]]

GateNames == {"AND", "NAND", "OR", "NOR", "XOR", "XNOR", "ANDNOT", "ORNOT", "MUX", "NMUX",
              "AOI3", "OAI3", "AOI4", "OAI4"}
GateAliases == {"simple", "cmos2", "cmos3", "cmos4", "cmos", "gates", "aig", "all"}

\* the first configuration error of OrloPass::execute, "" if there is none
ConfigError(o) ==
  IF ~LutCosts(o).ok THEN "Invalid -luts syntax."
  ELSE IF \E i \in 1..Len(o.g) : o.g[i] \notin GateNames \cup GateAliases
  THEN "Unsupported gate type"
  ELSE IF LutCosts(o).costs # <<>> /\ o.lib THEN "Got -lut and -liberty/-genlib!"
  ELSE IF o.constr /\ ~o.lib THEN "Got -constr but no -liberty/-genlib!"
  ELSE ""

OrloExecute ==
  /\ pc = "start"
  /\ cmd = "orlo"
  /\ scratchpad' = [scratchpad EXCEPT !.abc_dir = TRUE]
  /\ IF ConfigError(opts) # ""
     THEN /\ pc' = "cmd_error"
          /\ hist' = [hist EXCEPT !.error = ConfigError(opts)]
     ELSE /\ pc' = "next_module"
          /\ UNCHANGED hist
  /\ UNCHANGED <<cmd, opts, pending, processed, args, hostVars, passVars, loopVars, files>>
  /\ UNCHANGED auxVars

OrloReintExecute ==
  /\ pc = "start"
  /\ cmd = "orlo_reint"
  /\ IF ~scratchpad.abc_dir
     THEN /\ pc' = "error"
          /\ hist' = [hist EXCEPT !.error = "An ABC work directory must be specified"]
     ELSE /\ pc' = "next_module"
          /\ UNCHANGED hist
  /\ UNCHANGED <<cmdVars, hostVars, passVars, loopVars, files>>
  /\ UNCHANGED auxVars

\* the loop over the selected modules: take the next one, or end the command
NextModule ==
  /\ pc = "next_module"
  /\ LET done == IF module = NoModule THEN processed ELSE Append(processed, module)
     IN  IF pending = <<>>
         THEN /\ pc' = "end"
              /\ processed' = done
              /\ module' = NoModule
              /\ UNCHANGED <<pending, args, assign_map, initvals, cells>>
         ELSE IF Head(pending).processes
         THEN /\ pc' = "next_module"
              /\ processed' = Append(done, Head(pending))
              /\ module' = NoModule
              /\ pending' = Tail(pending)
              /\ UNCHANGED <<args, assign_map, initvals, cells>>
         ELSE LET mod == Head(pending)
                  am == SigMapSet(EmptyMap, mod.conns)
              IN  /\ processed' = done
                  /\ module' = mod
                  /\ pending' = Tail(pending)
                  /\ assign_map' = am
                  /\ initvals' = InitValsSet(am, mod.wires)
                  /\ args' = [dff_mode |-> opts.dff_mode, clk_str |-> opts.clk_str,
                              clk_domain |-> 0]
                  /\ cells' = CellNames(mod.cells)
                  /\ pc' = IF cmd = "orlo" THEN "orlo_module" ELSE "orlo_module_reint"
  /\ UNCHANGED <<cmd, opts, scratchpad, autoidx, signal_list, signal_map, clk_polarity, clk_sig,
                 en_polarity, en_sig, recover_init, map_autoidx, loopVars, files, hist>>
  /\ UNCHANGED auxVars

\* orlo_module up to the extraction loop
OrloModuleBegin ==
  /\ pc = "orlo_module"
  /\ LET c == ParseClk(args.clk_str, module, assign_map, Ctx)
         dir == orlo_module2name(module.name, args.clk_domain)
     IN  /\ map_autoidx' = autoidx
         /\ autoidx' = autoidx + 1
         /\ signal_list' = <<>>
         /\ signal_map' = EmptyReg.map
         /\ recover_init' = FALSE
         /\ clk_polarity' = c.clk_polarity
         /\ clk_sig' = c.clk_sig
         /\ en_polarity' = c.en_polarity
         /\ en_sig' = c.en_sig
         /\ IF args.dff_mode /\ c.clk_sig = <<>>
            THEN /\ pc' = "cmd_error"
                 /\ hist' = [hist EXCEPT !.error = "Clock domain not found."]
                 /\ UNCHANGED files
            ELSE IF dir \in DOMAIN files
            THEN /\ pc' = "cmd_error"
                 /\ hist' = [hist EXCEPT !.error = "Could not create directory."]
                 /\ UNCHANGED files
            ELSE /\ pc' = "extract"
                 /\ files' = FilesPut(files, dir, [NoDir EXCEPT !.script = TRUE])
                 /\ hist' = [hist EXCEPT !.tool_runs = 0, !.reint_runs = 0, !.tool_ret = 0]
  /\ UNCHANGED <<cmdVars, module, assign_map, initvals, cells, loopVars>>
  /\ UNCHANGED auxVars

\* orlo_module_reint up to the extraction loop
OrloModuleReintBegin ==
  /\ pc = "orlo_module_reint"
  /\ LET c == ParseClk(args.clk_str, module, assign_map, Ctx)
     IN  /\ map_autoidx' = autoidx
         /\ autoidx' = autoidx + 1
         /\ signal_list' = <<>>
         /\ signal_map' = EmptyReg.map
         /\ recover_init' = FALSE
         /\ clk_polarity' = c.clk_polarity
         /\ clk_sig' = c.clk_sig
         /\ en_polarity' = c.en_polarity
         /\ en_sig' = c.en_sig
         /\ IF args.dff_mode /\ c.clk_sig = <<>>
            THEN /\ pc' = "cmd_error"
                 /\ hist' = [hist EXCEPT !.error = "Clock domain not found."]
            ELSE /\ pc' = "extract"
                 /\ hist' = [hist EXCEPT !.tool_runs = 0, !.reint_runs = 0, !.tool_ret = 0]
  /\ UNCHANGED <<cmdVars, module, assign_map, initvals, cells, loopVars, files>>
  /\ UNCHANGED auxVars

\* one iteration of the loop "for (auto c : cells) extract_cell(c, keepff)"
ExtractCell ==
  /\ pc = "extract"
  /\ cells # <<>>
  /\ LET cell == CellByName(module.cells, Head(cells))
         r == extract_cell([list |-> signal_list, map |-> signal_map], assign_map, initvals,
                           Ctx, cell, opts.keepff)
     IN  /\ signal_list' = r.list
         /\ signal_map' = r.map
         /\ module' = [module EXCEPT
               !.cells = IF r.removed THEN RemoveCell(@, cell.name) ELSE @,
               !.wires = [w \in DOMAIN @ |-> IF w \in r.keep THEN [@[w] EXCEPT !.keep = TRUE]
                                              ELSE @[w]]]
         /\ hist' = [hist EXCEPT !.removed = IF r.removed THEN @ + 1 ELSE @]
  /\ cells' = Tail(cells)
  /\ UNCHANGED <<pc, cmdVars, assign_map, initvals, autoidx, clk_polarity, clk_sig, en_polarity,
                 en_sig, recover_init, map_autoidx, loopVars, files>>
  /\ UNCHANGED auxVars

\* the signals, had the connections of the remaining cells been left out
PortSignalsWithoutCells(mod, c) ==
  LET wl == {w \in DOMAIN mod.wires : mod.wires[w].port_id > 0 \/ mod.wires[w].keep}
      wsig == {<<WireBit(w, 0)>> : w \in wl}
      ksig == (IF Len(c.clk_sig) # 0 THEN {c.clk_sig} ELSE {})
              \cup (IF Len(c.en_sig) # 0 THEN {c.en_sig} ELSE {})
  IN  wsig \cup ksig

\* the signals mark_port is called with after the extraction, in order
PortSignals(mod, c) ==
  LET wl == {w \in DOMAIN mod.wires : mod.wires[w].port_id > 0 \/ mod.wires[w].keep}
      wsig == {<<WireBit(w, 0)>> : w \in wl}
      csig == UNION {{<<mod.cells[i].conn[p]>> : p \in DOMAIN mod.cells[i].conn} :
                       i \in 1..Len(mod.cells)}
      ksig == (IF Len(c.clk_sig) # 0 THEN {c.clk_sig} ELSE {})
              \cup (IF Len(c.en_sig) # 0 THEN {c.en_sig} ELSE {})
  IN  wsig \cup csig \cup ksig

RECURSIVE MarkAll(_, _, _)
MarkAll(reg, am, S) ==
  IF S = {} THEN reg
  ELSE LET x == CHOOSE y \in S : TRUE IN MarkAll(mark_port(reg, am, x), am, S \ {x})

\* the mark_port calls of orlo_module / orlo_module_reint
MarkPorts ==
  /\ pc = "extract"
  /\ cells = <<>>
  /\ signal_list' = MarkAll([list |-> signal_list, map |-> signal_map], assign_map,
                            PortSignals(module, Ctx)).list
  /\ pc' = "handle_loops"
  /\ UNCHANGED <<cmdVars, hostVars, signal_map, clk_polarity, clk_sig, en_polarity, en_sig,
                 recover_init, cells, map_autoidx, loopVars, files, hist>>
  /\ UNCHANGED auxVars

PassDir == orlo_module2name(module.name, args.clk_domain)

\* orlo_module from the emitter to the decision whether the tool is run
Emit ==
  /\ pc = "emit"
  /\ LET blif == EmitBlif(signal_list)
     IN  /\ files' = [files EXCEPT ![PassDir].input = blif]
         /\ recover_init' = (recover_init \/ EmitRecoverInit(signal_list))
         /\ pc' = IF Len(blif.outputs) > 0 THEN "run_tool" ELSE "next_module"
  /\ UNCHANGED <<cmdVars, hostVars, signal_list, signal_map, clk_polarity, clk_sig, en_polarity,
                 en_sig, cells, map_autoidx, loopVars, hist>>
  /\ UNCHANGED auxVars

\* the pass continues with the reintegration whatever the tool returned
AfterToolIgnoringRet(ret) == "reintegrate"

\* where the pass continues after the tool returned ret
AfterTool(ret) == IF ret # 0 THEN "error" ELSE "reintegrate"

\* the external tool runs: it returns an exit code and may write output.blif
RunTool ==
  /\ pc = "run_tool"
  /\ \E ret \in {0, 1}, wrote \in BOOLEAN :
       /\ files' = IF wrote
                   THEN [files EXCEPT ![PassDir].output = ToolOutput(files[PassDir].input),
                                      ![PassDir].has_output = TRUE]
                   ELSE files
       /\ hist' = [hist EXCEPT !.tool_runs = @ + 1, !.tool_ret = ret,
                               !.at_failure = IF ret # 0
                                              THEN [module |-> module,
                                                    tool_runs |-> hist.tool_runs + 1,
                                                    reint_runs |-> hist.reint_runs]
                                              ELSE @]
       /\ pc' = AfterTool(ret)
  /\ UNCHANGED <<cmdVars, hostVars, passVars, loopVars>>
  /\ UNCHANGED auxVars

\* exists(tempdir/output.blif)
OutputExists(f, dir) == dir \in DOMAIN f /\ f[dir].has_output

\* does orlo_reintegrate return without doing anything
ReintSkips(f, dir, sl) == ~OutputExists(f, dir)

\* the registry declares at least one output of the flattened netlist
HasOutputs(sl) == \E k \in 1..Len(sl) : sl[k].is_port /\ sl[k].type # "NONE"

\* the call of orlo_reintegrate
Reintegrate ==
  /\ pc = "reintegrate"
  /\ IF ReintSkips(files, PassDir, signal_list)
     THEN /\ pc' = "next_module"
          /\ hist' = [hist EXCEPT !.reint_runs = @ + 1,
                                  !.skipped = @ \cup {<<cmd, PassDir, HasOutputs(signal_list)>>}]
          /\ UNCHANGED module
     ELSE LET r == orlo_reintegrate(module, files[PassDir].output, signal_list, Ctx,
                                    map_autoidx, recover_init)
          IN  /\ pc' = IF r.ok THEN "next_module" ELSE "abort"
              /\ module' = r.module
              /\ hist' = [hist EXCEPT !.reint_runs = @ + 1]
  /\ UNCHANGED <<cmdVars, assign_map, initvals, autoidx, passVars, loopVars, files>>
  /\ UNCHANGED auxVars

\* the regression script between the two commands: the design is written
\* out after orlo, reset and read again, and orlo_reint follows
ScriptRestore ==
  /\ pc = "end"
  /\ cmd = "orlo"
  /\ opts.script
  /\ cmd' = "orlo_reint"
  /\ pc' = "start"
  /\ pending' = hist.design0
  /\ processed' = <<>>
  /\ autoidx' = hist.autoidx0
  /\ hist' = [hist EXCEPT !.post_abc = processed, !.removed = 0]
  /\ UNCHANGED <<opts, args, scratchpad, module, assign_map, initvals, passVars, loopVars, files>>
  /\ UNCHANGED auxVars

(***************************************************************************)
(* Initial states: the designs and options a command starts from.          *)
(***************************************************************************)
Hist0(design) ==
  [edges0 |-> 0, nodes0 |-> 0, list0 |-> <<>>, conns0 |-> <<>>, popped |-> <<>>,
   breaks |-> <<>>, skips |-> 0, loops_done |-> 0, removed |-> 0, error |-> "", tool_runs |-> 0,
   reint_runs |-> 0, tool_ret |-> 0, at_failure |-> [module |-> NoModule, tool_runs |-> 0, reint_runs |-> 0], skipped |-> {},
   post_abc |-> <<>>, design0 |-> design, autoidx0 |-> 1]

InitWith(designs, options) ==
  /\ pc = "start"
  /\ cmd = "orlo"
  /\ opts \in options
  /\ pending \in designs
  /\ processed = <<>>
  /\ args = [dff_mode |-> FALSE, clk_str |-> <<>>, clk_domain |-> 0]
  /\ module = NoModule
  /\ assign_map = EmptyMap
  /\ initvals = EmptyMap
  /\ autoidx = 1
  /\ map_autoidx = 0
  /\ signal_list = <<>>
  /\ signal_map = EmptyReg.map
  /\ clk_polarity = TRUE
  /\ clk_sig = <<>>
  /\ en_polarity = TRUE
  /\ en_sig = <<>>
  /\ recover_init = FALSE
  /\ cells = <<>>
  /\ edges = [u \in {} |-> {}]
  /\ in_edges_count = <<>>
  /\ workpool = {}
  /\ files = NoFiles
  /\ scratchpad = [abc_dir |-> FALSE]
  /\ hist = Hist0(pending)

\* the cells a design is drawn from (without their names)
CellChoices ==
  {[type |-> "$_NOT_", conn |-> [A |-> a, Y |-> y]] : a \in DataBits, y \in DataBits}
  \cup {[type |-> "$_AND_", conn |-> [A |-> x[1], B |-> x[2], Y |-> y]] :
          x \in DataBits \X DataBits, y \in DataBits}
  \cup {[type |-> "$_DFF_P_", conn |-> [D |-> d, Q |-> q, C |-> WireBit(ClkName, 0)]] :
          d \in DataBits, q \in DataBits}

OutBit(c) == IF "Q" \in DOMAIN c.conn THEN c.conn.Q ELSE c.conn.Y

\* every bit has at most one driver; the cells are listed in the order of
\* the wires they drive
SingleDriver(cs) ==
  \A i, j \in 1..Len(cs) : i < j => WireIndex(OutBit(cs[i]).wire) < WireIndex(OutBit(cs[j]).wire)

Named(cs) == [i \in 1..Len(cs) |-> [name |-> <<"$">> \o Dec(i), type |-> cs[i].type,
                                     conn |-> cs[i].conn]]

CellSeqs == {cs \in UNION {[1..n -> CellChoices] : n \in 0..MaxCells} : SingleDriver(cs)}

TopName == <<"\\", "t", "o", "p">>

TopWires ==
  [w \in DataWires \cup {ClkName} |->
     IF w = ClkName THEN WireAttr(1, 9, FALSE, "x", FALSE)
     ELSE WireUniverse[WireIndex(w)].attr]

TopModule(cs) == [name |-> TopName, wires |-> TopWires, cells |-> Named(cs), conns |-> <<>>,
                  processes |-> FALSE]

Designs == {<<TopModule(cs)>> : cs \in CellSeqs}

Opt(clk_str, keepff, script) ==
  [clk_str |-> clk_str, dff_mode |-> clk_str # <<>>, keepff |-> keepff, lut |-> 0,
   luts |-> <<>>, g |-> <<>>, lib |-> FALSE, constr |-> FALSE, script |-> script]

Options == {Opt(<<>>, FALSE, FALSE), Opt(<<"k">>, FALSE, TRUE)}

Init == InitWith(Designs, Options) /\ part = NoPart /\ probe = NoProbe

Next ==
  \/ OrloExecute
  \/ OrloReintExecute
  \/ NextModule
  \/ OrloModuleBegin
  \/ OrloModuleReintBegin
  \/ ExtractCell
  \/ MarkPorts
  \/ HandleLoopsBegin
  \/ HandleLoopsPop
  \/ HandleLoopsSkip
  \/ HandleLoopsBreak
  \/ HandleLoopsEnd
  \/ Emit
  \/ RunTool
  \/ Reintegrate
  \/ ScriptRestore

Spec == Init /\ [][Next]_vars

(***************************************************************************)
(* Commands on several selected modules and with every kind of option.     *)
(***************************************************************************)
SubName == <<"\\", "s", "u", "b">>

\* a module with the clock wire and two loops through its gates
LoopModule ==
  TopModule(<< [type |-> "$_AND_", conn |-> [A |-> WireBit(<<"\\", "c">>, 0),
                                              B |-> WireBit(<<"$", "b">>, 0),
                                              Y |-> WireBit(<<"\\", "c">>, 0)]],
               [type |-> "$_AND_", conn |-> [A |-> WireBit(<<"\\", "a">>, 0),
                                              B |-> WireBit(<<"$", "b">>, 0),
                                              Y |-> WireBit(<<"$", "b">>, 0)]] >>)

\* a module without the clock wire
SubModule ==
  [name |-> SubName,
   wires |-> [w \in DataWires |-> WireUniverse[WireIndex(w)].attr],
   cells |-> Named(<< [type |-> "$_NOT_", conn |-> [A |-> WireBit(<<"\\", "a">>, 0),
                                                     Y |-> WireBit(<<"\\", "c">>, 0)]] >>),
   conns |-> <<>>, processes |-> FALSE]

\* a module that still holds processes
ProcModule == [SubModule EXCEPT !.name = <<"\\", "p", "r", "c">>, !.processes = TRUE]

CmdDesigns == {<<LoopModule>>, <<SubModule>>, <<LoopModule, SubModule>>,
               <<SubModule, LoopModule>>, <<ProcModule, LoopModule>>}

CmdOptions ==
  LET clk == Opt(<<"k">>, FALSE, FALSE)
      comb == Opt(<<>>, FALSE, FALSE)
  IN  {clk, comb, Opt(<<"x">>, FALSE, FALSE), Opt(<<"k">>, FALSE, TRUE),
       [comb EXCEPT !.script = TRUE],
       [comb EXCEPT !.lut = 2],
       [comb EXCEPT !.lut = 2, !.lib = TRUE],
       [clk EXCEPT !.lib = TRUE, !.constr = TRUE],
       [clk EXCEPT !.constr = TRUE],
       [comb EXCEPT !.luts = <<"2", ",", "4", ":", "3">>],
       [clk EXCEPT !.luts = <<"1", ":", "2", ":", "3">>],
       [comb EXCEPT !.g = <<"AND", "cmos2">>],
       [clk EXCEPT !.g = <<"AND", "FOO">>]}

InitCmd == InitWith(CmdDesigns, CmdOptions) /\ part = NoPart /\ probe = NoProbe

SpecCmd == InitCmd /\ [][Next]_vars

(***************************************************************************)
(* The clock-domain partitioner of OrloPass::execute (-dff without -clk).  *)
(* Cells are known by their position in all_cells; the sets of cell        *)
(* pointers are walked in the order of the addresses, and part.order[c] is *)
(* the rank of the address of cell c among the cells of the module.        *)
(***************************************************************************)
MaxPartCells == 3

AltClkName == <<"\\", "j">>
PartBits == DataBits \cup {WireBit(<<"$", "d">>, 0)}

\* the cells that can drive bit y: an inverter or a flip-flop of one of two
\* clock domains, reading a data bit
PartDrivers(y) ==
  {[type |-> "$_NOT_", conn |-> [A |-> a, Y |-> y]] : a \in DataBits}
  \cup {[type |-> "$_DFF_P_", conn |-> [D |-> d, Q |-> y, C |-> WireBit(ClkName, 0)]] :
          d \in DataBits}
  \cup {[type |-> "$_DFF_N_", conn |-> [D |-> d, Q |-> y, C |-> WireBit(AltClkName, 0)]] :
          d \in DataBits}

\* the iteration over a std::set<RTLIL::SigBit>
RECURSIVE BitSeq(_)
BitSeq(B) ==
  IF B = {} THEN <<>>
  ELSE LET b == CHOOSE x \in B : \A y \in B \ {x} : StrLess(x.wire, y.wire)
       IN  <<b>> \o BitSeq(B \ {b})

\* the selected cells of a module with at most n cells that drive bits of
\* bs: every bit has at most one driver, and the cells are listed in the
\* order of the bits they drive
RECURSIVE DesignsOver(_, _)
DesignsOver(bs, n) ==
  IF bs = <<>> \/ n = 0 THEN {<<>>}
  ELSE DesignsOver(Tail(bs), n)
       \cup {<<c>> \o d : c \in PartDrivers(Head(bs)), d \in DesignsOver(Tail(bs), n - 1)}

PartDesigns == DesignsOver(BitSeq(PartBits), MaxPartCells)

\* the orders the addresses of n cells can have
AddressOrders(n) == {o \in [1..n -> 1..n] : \A i, j \in 1..n : o[i] = o[j] => i = j}

\* the cells at rising addresses are the cells in the order of all_cells
VectorOrder(n) == [i \in 1..n |-> i]

\* *set.begin() of a std::set<RTLIL::Cell*>
First(S, order) == CHOOSE c \in S : \A d \in S : order[c] <= order[d]

\* the iteration over a std::set<RTLIL::Cell*>
RECURSIVE InOrder(_, _)
InOrder(S, order) ==
  IF S = {} THEN <<>> ELSE <<First(S, order)>> \o InOrder(S \ {First(S, order)}, order)

RECURSIVE Dedup(_)
Dedup(s) ==
  IF s = <<>> THEN <<>>
  ELSE LET r == Dedup(SubSeq(s, 1, Len(s) - 1))
       IN  IF s[Len(s)] \in Range(r) THEN r ELSE Append(r, s[Len(s)])

\* ct.cell_input / ct.cell_output on the bits with a wire
UpBits(c) == {c.conn[p] : p \in {q \in DOMAIN c.conn \ {"Y", "Q"} : c.conn[q].wire # NULL}}
DownBits(c) == {c.conn[p] : p \in {q \in DOMAIN c.conn \cap {"Y", "Q"} : c.conn[q].wire # NULL}}
CellBits(c) == UpBits(c) \cup DownBits(c)

DesignBits(cs) == UNION {CellBits(cs[i]) : i \in 1..Len(cs)}
bit_to_cell(cs) == [b \in DesignBits(cs) |-> {i \in 1..Len(cs) : b \in CellBits(cs[i])}]
bit_to_cell_up(cs) == [b \in DesignBits(cs) |-> {i \in 1..Len(cs) : b \in DownBits(cs[i])}]
bit_to_cell_down(cs) == [b \in DesignBits(cs) |-> {i \in 1..Len(cs) : b \in UpBits(cs[i])}]

\* clkdomain_t of a flip-flop cell, and the key of the cells without domain
DefaultKey == <<TRUE, <<>>, TRUE, <<>> >>
DomainKey(c) ==
  IF c.type \in DffTypes THEN <<c.type = "$_DFF_P_", <<c.conn.C>>, TRUE, <<>> >>
  ELSE <<c.type \in {"$_DFFE_PN_", "$_DFFE_PP_"}, <<c.conn.C>>,
         c.type \in {"$_DFFE_NP_", "$_DFFE_PP_"}, <<c.conn.E>> >>

\* assigned_cells[key].push_back(c); assigned_cells_reverse[c] = key, for
\* the cells of new in turn
PushBack(p, key, new) ==
  [p EXCEPT !.assigned_cells =
              [k \in DOMAIN @ \cup (IF new = <<>> THEN {} ELSE {key}) |->
                 IF k = key THEN (IF key \in DOMAIN @ THEN @[key] ELSE <<>>) \o new ELSE @[k]],
            !.assigned_cells_reverse =
              [c \in DOMAIN @ \cup Range(new) |-> IF c \in Range(new) THEN key ELSE @[c]]]

\* the assignment without unassigned_cells.erase(c)
AssignKeepUnassigned(p, key, new) == PushBack(p, key, new)

\* unassigned_cells.erase(c) and the pushes, for the cells of new in turn
Assign(p, key, new) == [PushBack(p, key, new) EXCEPT !.unassigned = @ \ Range(new)]

\* the unassigned cells the two nested loops over bits and nbr[bit] reach
Reached(p, bits, nbr) ==
  LET bs == BitSeq(bits)
      free(c) == c \in p.unassigned
  IN  Dedup(Concat([i \in 1..Len(bs) |-> SelectSeq(InOrder(nbr[bs[i]], p.order), free)]))

PartStart(cs, order) ==
  [phase |-> "seed", cells |-> cs, order |-> order, unassigned |-> 1..Len(cs),
   expand_queue |-> {}, next_expand_queue |-> {},
   expand_queue_up |-> {}, next_expand_queue_up |-> {},
   expand_queue_down |-> {}, next_expand_queue_down |-> {},
   assigned_cells |-> [k \in {} |-> <<>>], assigned_cells_reverse |-> [c \in {} |-> DefaultKey],
   bit_to_cell |-> bit_to_cell(cs), handed |-> {}]

\* where the partitioner continues
PhaseOf(p) ==
  IF p.expand_queue_up # {} \/ p.expand_queue_down # {} THEN "directed"
  ELSE IF p.expand_queue # {} THEN "any"
  ELSE "default"

\* the loop over all_cells: every flip-flop opens or joins its domain
RECURSIVE SeedFrom(_, _)
SeedFrom(p, i) ==
  IF i > Len(p.cells) THEN p
  ELSE IF p.cells[i].type \in DffTypes \cup DffeTypes
  THEN SeedFrom([Assign(p, DomainKey(p.cells[i]), <<i>>) EXCEPT
                   !.expand_queue = @ \cup {i},
                   !.expand_queue_up = @ \cup {i},
                   !.expand_queue_down = @ \cup {i}], i + 1)
  ELSE SeedFrom(p, i + 1)

SeedStep(p) == LET q == SeedFrom(p, 1) IN [q EXCEPT !.phase = PhaseOf(q)]

\* "if (!expand_queue_up.empty())" of the first expansion loop
UpHalf(p) ==
  IF p.expand_queue_up = {} THEN p
  ELSE LET cell == First(p.expand_queue_up, p.order)
           new == Reached(p, UpBits(p.cells[cell]), bit_to_cell_up(p.cells))
       IN  [Assign(p, p.assigned_cells_reverse[cell], new) EXCEPT
              !.expand_queue_up = @ \ {cell},
              !.next_expand_queue_up = @ \cup Range(new),
              !.expand_queue = @ \cup Range(new)]

\* "if (!expand_queue_down.empty())" of the first expansion loop
DownHalf(p) ==
  IF p.expand_queue_down = {} THEN p
  ELSE LET cell == First(p.expand_queue_down, p.order)
           new == Reached(p, DownBits(p.cells[cell]), bit_to_cell_down(p.cells))
       IN  [Assign(p, p.assigned_cells_reverse[cell], new) EXCEPT
              !.expand_queue_down = @ \ {cell},
              !.next_expand_queue_up = @ \cup Range(new),
              !.expand_queue = @ \cup Range(new)]

SwapQueues(p) ==
  IF p.expand_queue_up = {} /\ p.expand_queue_down = {}
  THEN [p EXCEPT !.expand_queue_up = p.next_expand_queue_up,
                 !.next_expand_queue_up = p.expand_queue_up,
                 !.expand_queue_down = p.next_expand_queue_down,
                 !.next_expand_queue_down = p.expand_queue_down]
  ELSE p

\* one iteration of the first expansion loop
DirectedStep(p) ==
  LET q == SwapQueues(DownHalf(UpHalf(p)))
  IN  [q EXCEPT !.phase = IF q.expand_queue_up # {} \/ q.expand_queue_down # {}
                          THEN "directed" ELSE IF q.expand_queue # {} THEN "any" ELSE "default"]

\* the second expansion loop, had it walked the input bits of the cell only
AnyStepUpOnly(p) ==
  LET cell == First(p.expand_queue, p.order)
      bits == UpBits(p.cells[cell])
      new == Reached(p, bits, p.bit_to_cell)
      q == [Assign(p, p.assigned_cells_reverse[cell], new) EXCEPT
              !.expand_queue = @ \ {cell},
              !.next_expand_queue = @ \cup Range(new),
              !.bit_to_cell = [b \in DOMAIN @ |-> IF b \in bits THEN {} ELSE @[b]]]
      r == IF q.expand_queue = {}
           THEN [q EXCEPT !.expand_queue = q.next_expand_queue, !.next_expand_queue = {}]
           ELSE q
  IN  [r EXCEPT !.phase = IF r.expand_queue # {} THEN "any" ELSE "default"]

\* one iteration of the second expansion loop
AnyStep(p) ==
  LET cell == First(p.expand_queue, p.order)
      bits == CellBits(p.cells[cell])
      new == Reached(p, bits, p.bit_to_cell)
      q == [Assign(p, p.assigned_cells_reverse[cell], new) EXCEPT
              !.expand_queue = @ \ {cell},
              !.next_expand_queue = @ \cup Range(new),
              !.bit_to_cell = [b \in DOMAIN @ |-> IF b \in bits THEN {} ELSE @[b]]]
      r == IF q.expand_queue = {}
           THEN [q EXCEPT !.expand_queue = q.next_expand_queue, !.next_expand_queue = {}]
           ELSE q
  IN  [r EXCEPT !.phase = IF r.expand_queue # {} THEN "any" ELSE "default"]

\* the cells no domain reached; they stay in unassigned_cells
DefaultStep(p) ==
  [PushBack(p, DefaultKey, InOrder(p.unassigned, p.order)) EXCEPT !.phase = "passes"]

\* the loop that runs one pass per domain on its cell list
PassesStep(p) ==
  [p EXCEPT !.handed = {p.assigned_cells[k] : k \in DOMAIN p.assigned_cells},
            !.phase = "done"]

PartStep(p) ==
  CASE p.phase = "seed" -> SeedStep(p)
    [] p.phase = "directed" -> DirectedStep(p)
    [] p.phase = "any" -> AnyStep(p)
    [] p.phase = "default" -> DefaultStep(p)
    [] p.phase = "passes" -> PassesStep(p)
    [] OTHER -> p

\* the whole partitioner
RECURSIVE RunPart(_)
RunPart(p) == IF p.phase = "done" THEN p ELSE RunPart(PartStep(p))

PartSeed ==
  /\ part.phase = "seed"
  /\ part' = SeedStep(part)
  /\ UNCHANGED <<mainVars, probe>>

PartExpandDirected ==
  /\ part.phase = "directed"
  /\ part' = DirectedStep(part)
  /\ UNCHANGED <<mainVars, probe>>

PartExpandAny ==
  /\ part.phase = "any"
  /\ part' = AnyStep(part)
  /\ UNCHANGED <<mainVars, probe>>

PartDefault ==
  /\ part.phase = "default"
  /\ part' = DefaultStep(part)
  /\ UNCHANGED <<mainVars, probe>>

PartPasses ==
  /\ part.phase = "passes"
  /\ part' = PassesStep(part)
  /\ UNCHANGED <<mainVars, probe>>

InitPart ==
  /\ InitWith({<<>>}, {Opt(<<>>, FALSE, FALSE)})
  /\ probe = NoProbe
  /\ \E cs \in PartDesigns : \E order \in AddressOrders(Len(cs)) :
       part = PartStart(cs, order)

NextPart ==
  \/ PartSeed
  \/ PartExpandDirected
  \/ PartExpandAny
  \/ PartDefault
  \/ PartPasses

SpecPart == InitPart /\ [][NextPart]_vars

(***************************************************************************)
(* Single calls of the emitter's gate covers and of remap_name.            *)
(***************************************************************************)
EmittedGates == {"BUF", "NOT", "AND", "NAND", "OR", "NOR", "XOR", "XNOR", "ANDNOT", "ORNOT",
                 "MUX", "NMUX", "AOI3", "OAI3", "AOI4", "OAI4"}

\* the value a tool reads from the .names block the emitter writes for a
\* gate of kind t, the fan-ins in1..in4 carrying the values ins
EmittedValue(t, ins) == EvalCover(Cover(t), SubSeq(ins, 1, Arity(t)))

EmitGate ==
  /\ probe.fn = "emit"
  /\ ~probe.done
  /\ probe' = [probe EXCEPT !.done = TRUE, !.out = EmittedValue(probe.type, probe.ins)]
  /\ UNCHANGED <<mainVars, part>>

InitCover ==
  /\ InitWith({<<>>}, {Opt(<<>>, FALSE, FALSE)})
  /\ part = NoPart
  /\ probe \in {[fn |-> "emit", type |-> t, ins |-> ins, done |-> FALSE, out |-> FALSE] :
                  t \in EmittedGates, ins \in [1..4 -> BOOLEAN]}

NextCover == EmitGate

SpecCover == InitCover /\ [][NextCover]_vars

\* a registry with a one-bit wire, a bit of a wider wire and a constant
WideName == <<"\\", "v">>
RemapWires ==
  [w \in {<<"\\", "a">>, WideName} |->
     IF w = WideName THEN WireAttr(2, 0, FALSE, "x", FALSE) ELSE WireAttr(1, 1, FALSE, "x", TRUE)]
RemapList ==
  << [gate_t(0, WireBit(<<"\\", "a">>, 0), "x") EXCEPT !.is_port = TRUE],
     [gate_t(1, WireBit(WideName, 1), "x") EXCEPT !.type = "NOT", !.in1 = 0],
     [gate_t(2, ConstBit("1"), "x") EXCEPT !.type = "NONE"] >>

\* the names a tool may hand back: with and without new_, the emitter's
\* names of registered and of unknown ids, other names, with a postfix
ToolBodies ==
  {YsName(i) : i \in 0..3} \cup
  {YsPrefix, YsPrefix \o <<"0", "1">>, YsPrefix \o <<"1", "0">>, YsPrefix \o <<"x">>,
   <<"n", "7">>}
ToolPostfixes == {<<>>, <<"_", "z">>, <<"[", "3", "]">>}
ToolNames ==
  {[isnew |-> n, body |-> b, postfix |-> x] :
     n \in BOOLEAN, b \in ToolBodies, x \in ToolPostfixes}

\* the IdString of a tool name
IdOf(n) == <<"\\">> \o (IF n.isnew THEN NewPrefix ELSE <<>>) \o n.body \o n.postfix

RemapName ==
  /\ probe.fn = "remap"
  /\ ~probe.done
  /\ probe' = [probe EXCEPT !.done = TRUE,
                            !.out = remap_name(IdOf(probe.name), RemapList, RemapWires, probe.k)]
  /\ UNCHANGED <<mainVars, part>>

InitRemap ==
  /\ InitWith({<<>>}, {Opt(<<>>, FALSE, FALSE)})
  /\ part = NoPart
  /\ probe \in {[fn |-> "remap", name |-> n, k |-> k, done |-> FALSE,
                 out |-> [name |-> <<>>, orig_wire |-> NULL, threw |-> FALSE]] :
                  n \in ToolNames, k \in {1, 12}}

NextRemap == RemapName

SpecRemap == InitRemap /\ [][NextRemap]_vars

(***************************************************************************)
(* The wires of the tool's netlist re-created in the host module.          *)
(***************************************************************************)
\* a registry with two one-bit wires that differ in their first character
\* only, a bit of a wider wire and a constant
SiblingName == <<"$", "a">>
PairWires ==
  [w \in {<<"\\", "a">>, SiblingName, WideName} |->
     IF w = WideName THEN WireAttr(2, 0, FALSE, "x", FALSE) ELSE WireAttr(1, 0, FALSE, "x", TRUE)]
PairList ==
  RemapList \o << [gate_t(3, WireBit(SiblingName, 0), "x") EXCEPT !.type = "NOT", !.in1 = 0] >>

\* the wire names of a netlist, among the names remap_name returns on:
\* emitter names and nets of the tool's own
PairNames ==
  {IdOf(n) : n \in {m \in ToolNames : m.body # YsPrefix}}
  \cup {<<"\\", "a">>, <<"\\", "v", "[", "1", "]">>}

\* module->addWire(remap_name(w->name, &orig_wire)) for the next wire of
\* mapped_mod: the name is added, unless the module has a wire of that name
AddMappedWire ==
  /\ probe.fn = "wires"
  /\ probe.todo # <<>>
  /\ ~probe.clash
  /\ LET r == remap_name(Head(probe.todo), PairList, PairWires, probe.k)
     IN  probe' = [probe EXCEPT !.todo = Tail(@),
                                !.last = r.name,
                                !.clash = r.name \in probe.created,
                                !.created = @ \cup {r.name}]
  /\ UNCHANGED <<mainVars, part>>

InitWires ==
  /\ InitWith({<<>>}, {Opt(<<>>, FALSE, FALSE)})
  /\ part = NoPart
  /\ \E n1 \in PairNames : \E n2 \in PairNames \ {n1} : \E k \in {1, 12} :
       probe = [fn |-> "wires", todo |-> <<n1, n2>>, k |-> k, last |-> <<>>,
                created |-> {}, clash |-> FALSE]

NextWires == AddMappedWire

SpecWires == InitWires /\ [][NextWires]_vars

(***************************************************************************)
(* Commands on modules of flip-flops of every type, with every clock and   *)
(* enable discipline of -clk.                                              *)
(***************************************************************************)
FfChoices ==
  {[type |-> t, conn |-> [D |-> d, Q |-> q, C |-> WireBit(ClkName, 0)]] :
     t \in DffTypes, d \in DataBits, q \in DataBits}
  \cup {[type |-> t, conn |-> [D |-> d, Q |-> q, C |-> WireBit(ClkName, 0),
                               E |-> WireBit(EnName, 0)]] :
          t \in DffeTypes, d \in DataBits, q \in DataBits}

FfSeqs == {cs \in UNION {[1..n -> FfChoices] : n \in 1..2} : SingleDriver(cs)}

\* a module with the clock wire \k and the enable wire \e
FfModule(cs) ==
  [TopModule(cs) EXCEPT
     !.wires = [w \in DOMAIN TopWires \cup {EnName} |->
                  IF w = EnName THEN WireAttr(1, 8, FALSE, "x", FALSE) ELSE TopWires[w]]]

FfDesigns == {<<FfModule(cs)>> : cs \in FfSeqs} \cup {<<LoopModule>>}

\* -clk [!]k[,[!]e]
ClkStrings ==
  {pc1 \o <<"k">> \o en : pc1 \in {<<>>, <<"!">>},
                          en \in {<<>>, <<",", "e">>, <<",", "!", "e">>}}

FfOptions == {Opt(s, FALSE, FALSE) : s \in ClkStrings} \cup {Opt(<<"k">>, FALSE, TRUE)}

InitFf == InitWith(FfDesigns, FfOptions) /\ part = NoPart /\ probe = NoProbe

SpecFf == InitFf /\ [][Next]_vars

(***************************************************************************)
(* The command script of a pass: the template and its placeholders.        *)
(***************************************************************************)
\* the default scripts ORLO_COMMAND_<kind> and ORLO_FAST_COMMAND_<kind>
OrloCommand(kind, fast) ==
  CASE kind = "LIB" /\ ~fast ->
      <<"s", "t", "r", "a", "s", "h", ";", " ", "i", "f", "r", "a", "i", "g", ";", " ", "s", "c",
      "o", "r", "r", ";", " ", "d", "c", "2", ";", " ", "d", "r", "e", "t", "i", "m", "e", ";",
      " ", "s", "t", "r", "a", "s", "h", ";", " ", "&", "g", "e", "t", " ", "-", "n", ";", " ",
      "&", "d", "c", "h", " ", "-", "f", ";", " ", "&", "n", "f", " ", "{", "D", "}", ";", " ",
      "&", "p", "u", "t">>
    [] kind = "CTR" /\ ~fast ->
      <<"s", "t", "r", "a", "s", "h", ";", " ", "i", "f", "r", "a", "i", "g", ";", " ", "s", "c",
      "o", "r", "r", ";", " ", "d", "c", "2", ";", " ", "d", "r", "e", "t", "i", "m", "e", ";",
      " ", "s", "t", "r", "a", "s", "h", ";", " ", "&", "g", "e", "t", " ", "-", "n", ";", " ",
      "&", "d", "c", "h", " ", "-", "f", ";", " ", "&", "n", "f", " ", "{", "D", "}", ";", " ",
      "&", "p", "u", "t", ";", " ", "b", "u", "f", "f", "e", "r", ";", " ", "u", "p", "s", "i",
      "z", "e", " ", "{", "D", "}", ";", " ", "d", "n", "s", "i", "z", "e", " ", "{", "D", "}",
      ";", " ", "s", "t", "i", "m", "e", " ", "-", "p">>
    [] kind = "LUT" /\ ~fast ->
      <<"s", "t", "r", "a", "s", "h", ";", " ", "i", "f", "r", "a", "i", "g", ";", " ", "s", "c",
      "o", "r", "r", ";", " ", "d", "c", "2", ";", " ", "d", "r", "e", "t", "i", "m", "e", ";",
      " ", "s", "t", "r", "a", "s", "h", ";", " ", "d", "c", "h", " ", "-", "f", ";", " ", "i",
      "f", ";", " ", "m", "f", "s", "2">>
    [] kind = "SOP" /\ ~fast ->
      <<"s", "t", "r", "a", "s", "h", ";", " ", "i", "f", "r", "a", "i", "g", ";", " ", "s", "c",
      "o", "r", "r", ";", " ", "d", "c", "2", ";", " ", "d", "r", "e", "t", "i", "m", "e", ";",
      " ", "s", "t", "r", "a", "s", "h", ";", " ", "d", "c", "h", " ", "-", "f", ";", " ", "c",
      "o", "v", "e", "r", " ", "{", "I", "}", " ", "{", "P", "}">>
    [] kind = "DFL" /\ ~fast ->
      <<"s", "t", "r", "a", "s", "h", ";", " ", "i", "f", "r", "a", "i", "g", ";", " ", "s", "c",
      "o", "r", "r", ";", " ", "d", "c", "2", ";", " ", "d", "r", "e", "t", "i", "m", "e", ";",
      " ", "s", "t", "r", "a", "s", "h", ";", " ", "&", "g", "e", "t", " ", "-", "n", ";", " ",
      "&", "d", "c", "h", " ", "-", "f", ";", " ", "&", "n", "f", " ", "{", "D", "}", ";", " ",
      "&", "p", "u", "t">>
    [] kind = "LIB" /\ fast ->
      <<"s", "t", "r", "a", "s", "h", ";", " ", "d", "r", "e", "t", "i", "m", "e", ";", " ", "m",
      "a", "p", " ", "{", "D", "}">>
    [] kind = "CTR" /\ fast ->
      <<"s", "t", "r", "a", "s", "h", ";", " ", "d", "r", "e", "t", "i", "m", "e", ";", " ", "m",
      "a", "p", " ", "{", "D", "}", ";", " ", "b", "u", "f", "f", "e", "r", ";", " ", "u", "p",
      "s", "i", "z", "e", " ", "{", "D", "}", ";", " ", "d", "n", "s", "i", "z", "e", " ", "{",
      "D", "}", ";", " ", "s", "t", "i", "m", "e", " ", "-", "p">>
    [] kind = "LUT" /\ fast ->
      <<"s", "t", "r", "a", "s", "h", ";", " ", "d", "r", "e", "t", "i", "m", "e", ";", " ", "i",
      "f">>
    [] kind = "SOP" /\ fast ->
      <<"s", "t", "r", "a", "s", "h", ";", " ", "d", "r", "e", "t", "i", "m", "e", ";", " ", "c",
      "o", "v", "e", "r", " ", "{", "I", "}", " ", "{", "P", "}">>
    [] kind = "DFL" /\ fast ->
      <<"s", "t", "r", "a", "s", "h", ";", " ", "d", "r", "e", "t", "i", "m", "e", ";", " ", "m",
      "a", "p">>

\* s.find(pat, from): 0-based position, -1 for npos
Find(s, pat, from) ==
  LET P == {i \in from..(Len(s) - Len(pat)) : SubSeq(s, i + 1, i + Len(pat)) = pat}
  IN  IF P = {} THEN -1 ELSE Min(P)

\* s.substr(0, pos) + rep + s.substr(pos + n)
Splice(s, pos, n, rep) == SubSeq(s, 1, pos) \o rep \o Drop(s, pos + n)

\* for (pos = s.find(pat); pos != npos; pos = s.find(again, pos + step))
\*   s = s.substr(0, pos) + rep + s.substr(pos + n);
RECURSIVE ReplaceFrom(_, _, _, _, _, _)
ReplaceFrom(s, pos, n, rep, again, step) ==
  IF pos = -1 THEN s
  ELSE LET t == Splice(s, pos, n, rep)
       IN  ReplaceFrom(t, Find(t, again, pos + step), n, rep, again, step)

\* the placeholder {c}
Placeholder(c) == <<"{", c, "}">>
Dretime == <<"d", "r", "e", "t", "i", "m", "e", ";">>
DretimeRetime == <<"d", "r", "e", "t", "i", "m", "e", ";", " ", "r", "e", "t", "i", "m", "e", " ", "-", "o",
    " ", "{", "D", "}", ";">>

\* the characters of a script given with a leading +
RECURSIVE CustomScript(_)
CustomScript(s) ==
  IF s = <<>> THEN <<>>
  ELSE (IF Head(s) = "'" THEN <<"'", "\\", "'", "'">>
        ELSE IF Head(s) = "," THEN <<" ">>
        ELSE <<Head(s)>>) \o CustomScript(Tail(s))

\* the commands of the script before the placeholders are replaced
ScriptTemplate(o) ==
  IF o.script_file # <<>>
  THEN IF o.script_file[1] = "+" THEN CustomScript(Tail(o.script_file))
       ELSE <<"s", "o", "u", "r", "c", "e", " ">> \o o.script_file
  ELSE IF o.mode \in {"lut_same", "lut_differ"}
  THEN OrloCommand("LUT", o.fast_mode)
       \o (IF o.mode = "lut_same" /\ ~o.fast_mode THEN <<";", " ", "l", "u", "t", "p", "a", "c", "k", " ", "{", "S", "}">> ELSE <<>>)
  ELSE IF o.mode = "lib" THEN OrloCommand("LIB", o.fast_mode)
  ELSE IF o.mode = "constr" THEN OrloCommand("CTR", o.fast_mode)
  ELSE IF o.mode = "sop" THEN OrloCommand("SOP", o.fast_mode)
  ELSE OrloCommand("DFL", o.fast_mode)

\* the template with retime added after every dretime
WithRetime(o, s) ==
  IF o.script_file = <<>> /\ o.delay_target # <<>>
  THEN ReplaceFrom(s, Find(s, Dretime, 0), 8, DretimeRetime, Dretime, 1)
  ELSE s

\* the four loops that replace the placeholders
ReplaceD(o, s) == ReplaceFrom(s, Find(s, Placeholder("D"), 0), 3, o.delay_target, Placeholder("D"), 0)
ReplaceI(o, s) == ReplaceFrom(s, Find(s, Placeholder("I"), 0), 3, o.sop_inputs, Placeholder("D"), 0)
ReplaceP(o, s) == ReplaceFrom(s, Find(s, Placeholder("P"), 0), 3, o.sop_products, Placeholder("D"), 0)
ReplaceS(o, s) == ReplaceFrom(s, Find(s, Placeholder("S"), 0), 3, o.lutin_shared, Placeholder("S"), 0)

\* abc_script after the placeholder loops
abc_script(o) == ReplaceS(o, ReplaceP(o, ReplaceI(o, ReplaceD(o, WithRetime(o, ScriptTemplate(o))))))

\* the scripts, modes and parameter strings of a pass
ScriptFiles ==
  {<<>>, <<"+", "c", "o", "v", "e", "r", ",", "{", "I", "}", ",", "{", "P", "}">>, <<"+", "m", "a", "p", ",", "{", "D", "}", ";", "c", "o", "v", "e", "r", ",", "{", "I", "}",
    ",", "-", "x", ",", "{", "I", "}">>,
   <<"+", "i", "f", ",", "{", "S", "}", ";", "e", "c", "h", "o", ",", "'", "{", "P", "}", "'",
    ",", "'", "{", "P", "}", "'">>, <<"m", "y", ".", "a", "b", "c">>}
ScriptOptions ==
  {[script_file |-> f, mode |-> m, fast_mode |-> fm, delay_target |-> d, sop_inputs |-> i,
    sop_products |-> p, lutin_shared |-> s] :
     f \in ScriptFiles, m \in {"dfl", "sop", "lib", "constr", "lut_same", "lut_differ"},
     fm \in BOOLEAN, d \in {<<>>, <<"-", "D", " ", "5", "0">>}, i \in {<<>>, <<"-", "I", " ", "2">>},
     p \in {<<>>, <<"-", "P", " ", "3">>}, s \in {<<"-", "S", " ", "1">>, <<"-", "S", " ", "2">>}}

BuildScript ==
  /\ probe.fn = "script"
  /\ ~probe.done
  /\ probe' = [probe EXCEPT !.done = TRUE, !.out = abc_script(probe.o)]
  /\ UNCHANGED <<mainVars, part>>

InitScript ==
  /\ InitWith({<<>>}, {Opt(<<>>, FALSE, FALSE)})
  /\ part = NoPart
  /\ \E o \in ScriptOptions : probe = [fn |-> "script", o |-> o, done |-> FALSE, out |-> <<>>]

NextScript == BuildScript

SpecScript == InitScript /\ [][NextScript]_vars

\* ---------------------------------------------------------------------
\* The interchange directories of the passes of one run
\* ---------------------------------------------------------------------

\* the string of n characters c
Rep(c, n) == [i \in 1..n |-> c]

\* module names of a design: an IdString starts with \ or $
ModNameChars == {"a", "$", "-"}

ModNames ==
  LET tails == {<<c>> : c \in ModNameChars}
                 \cup {<<c, d>> : c \in ModNameChars, d \in ModNameChars}
  IN  {<<p>> \o t : p \in {"\\", "$"}, t \in tails}
        \cup {<<"\\">> \o Rep("a", ModNameMax) \o <<c>> : c \in {"x", "y"}}
        \cup {<<"\\", "a", "'">>}

\* orlo_module: the directory of the pass is made with mkdir, which fails
\* when the directory exists
MakeTempDir ==
  /\ probe.fn = "dirs"
  /\ probe.todo # <<>>
  /\ ~probe.failed
  /\ LET p == Head(probe.todo)
         tempdir_name == orlo_module2name(p[1], p[2])
     IN  probe' = [probe EXCEPT !.todo = Tail(@),
                                !.done = Append(@, <<p[1], p[2], tempdir_name>>),
                                !.failed = tempdir_name \in probe.dirs,
                                !.dirs = @ \cup {tempdir_name}]
  /\ UNCHANGED <<mainVars, part>>

InitDirs ==
  /\ InitWith({<<>>}, {Opt(<<>>, FALSE, FALSE)})
  /\ part = NoPart
  /\ \E m1 \in ModNames : \E m2 \in ModNames : \E d1 \in 0..1 : \E d2 \in 0..1 :
       /\ <<m1, d1>> # <<m2, d2>>
       /\ probe = [fn |-> "dirs", todo |-> <<<<m1, d1>>, <<m2, d2>>>>, done |-> <<>>,
                   dirs |-> {}, failed |-> FALSE]

NextDirs == MakeTempDir

SpecDirs == InitDirs /\ [][NextDirs]_vars

\* ---------------------------------------------------------------------
\* The choice of the node at which a loop is broken
\* ---------------------------------------------------------------------

\* the bits of the candidate nodes: constants, internal and public wires,
\* two bits of one wire
BreakBits ==
  {ConstBit("0"), ConstBit("1"), WireBit(<<"$", "a">>, 0), WireBit(<<"$", "b">>, 0),
   WireBit(<<"\\", "a">>, 0), WireBit(<<"\\", "v">>, 0), WireBit(<<"\\", "v">>, 1)}

BreakNodes == 3

\* registries of BreakNodes nodes on different bits
BreakLists ==
  {[k \in 1..BreakNodes |-> gate_t(k - 1, b[k], "x")] :
     b \in {c \in [1..BreakNodes -> BreakBits] : \A i, j \in 1..BreakNodes : c[i] = c[j] => i = j}}

\* the successor sets of a candidate: the choice looks at their size only
BreakSuccessors == {0..(n - 1) : n \in 0..(BreakNodes - 1)}

\* the selection loop of handle_loops on a registry and a successor map
SelectBreakNode ==
  /\ probe.fn = "select"
  /\ probe.chosen = -1
  /\ probe' = [probe EXCEPT !.chosen = SelectBreak(probe.e, probe.sl)]
  /\ UNCHANGED <<mainVars, part>>

InitSelect ==
  /\ InitWith({<<>>}, {Opt(<<>>, FALSE, FALSE)})
  /\ part = NoPart
  /\ \E sl \in BreakLists : \E e \in [0..(BreakNodes - 1) -> BreakSuccessors] :
       probe = [fn |-> "select", sl |-> sl, e |-> e, chosen |-> -1]

NextSelect == SelectBreakNode

SpecSelect == InitSelect /\ [][NextSelect]_vars

\* ---------------------------------------------------------------------
\* Modules in which a bit has more than one driver
\* ---------------------------------------------------------------------

\* two cells that drive the same bit
SharedDriverSeqs ==
  {cs \in [1..2 -> CellChoices] : OutBit(cs[1]) = OutBit(cs[2]) /\ cs[1] # cs[2]}

SharedDriverDesigns == {<<TopModule(cs)>> : cs \in SharedDriverSeqs}

InitShared ==
  /\ InitWith(SharedDriverDesigns \cup {<<LoopModule>>}, Options)
  /\ part = NoPart
  /\ probe = NoProbe

SpecShared == InitShared /\ [][Next]_vars

\* ---------------------------------------------------------------------
\* A call of mark_port on a registry with constants and joined wires
\* ---------------------------------------------------------------------

MarkBits == {ConstBit("0"), ConstBit("1")} \cup DataBits

\* the SigMap of a module without connections, with two wires joined, and
\* with a wire tied to a constant
MarkMaps ==
  {EmptyMap,
   SigMapSet(EmptyMap, <<<<WireBit(<<"\\", "a">>, 0), WireBit(<<"$", "b">>, 0)>>>>),
   SigMapSet(EmptyMap, <<<<WireBit(<<"\\", "c">>, 0), ConstBit("0")>>>>)}

MarkSignals == {<<b>> : b \in MarkBits} \cup {<<b, c>> : b \in MarkBits, c \in MarkBits}

\* the registry after an inverter with input b1 and output b2 was recorded
MarkRegistry(am, b1, b2) ==
  LET a == map_signal(EmptyReg, am, EmptyMap, b1, "NONE", -1, -1, -1, -1)
      y == map_signal(a, am, EmptyMap, b2, "NOT", a.id, -1, -1, -1)
  IN  [list |-> y.list, map |-> y.map]

MarkPortCall ==
  /\ probe.fn = "mark"
  /\ ~probe.done
  /\ probe' = [probe EXCEPT !.done = TRUE,
                            !.out = mark_port(probe.reg, probe.am, probe.sig)]
  /\ UNCHANGED <<mainVars, part>>

InitMark ==
  /\ InitWith({<<>>}, {Opt(<<>>, FALSE, FALSE)})
  /\ part = NoPart
  /\ \E am \in MarkMaps : \E b1 \in MarkBits : \E b2 \in DataBits : \E sig \in MarkSignals :
       probe = [fn |-> "mark", am |-> am, reg |-> MarkRegistry(am, b1, b2), sig |-> sig,
                done |-> FALSE, out |-> EmptyReg]

NextMark == MarkPortCall

SpecMark == InitMark /\ [][NextMark]_vars

\* ---------------------------------------------------------------------
\* Modules with flip-flops of several clocks and with foreign cells
\* ---------------------------------------------------------------------

\* flip-flops on the clock \k or on the data wire \a, and adders
MixedChoices ==
  {[type |-> t, conn |-> [D |-> WireBit(<<"\\", "a">>, 0), Q |-> q, C |-> WireBit(c, 0)]] :
     t \in DffTypes, q \in DataBits, c \in {ClkName, <<"\\", "a">>}}
  \cup {[type |-> t, conn |-> [D |-> WireBit(<<"\\", "a">>, 0), Q |-> q, C |-> WireBit(c, 0),
                               E |-> WireBit(EnName, 0)]] :
          t \in DffeTypes, q \in DataBits, c \in {ClkName, <<"\\", "a">>}}
  \cup {[type |-> "$add", conn |-> [A |-> WireBit(<<"\\", "a">>, 0), B |-> b, Y |-> y]] :
          b \in DataBits, y \in DataBits}

MixedSeqs == {cs \in UNION {[1..n -> MixedChoices] : n \in 1..2} : SingleDriver(cs)}

MixedDesigns == {<<FfModule(cs)>> : cs \in MixedSeqs} \cup {<<LoopModule>>}

\* -clk [!]k[,[!]e] with and without -keepff
MixedOptions ==
  {Opt(s, k, FALSE) : s \in ClkStrings \cup {<<>>}, k \in BOOLEAN} \cup {Opt(<<"k">>, FALSE, TRUE)}

InitMixed == InitWith(MixedDesigns, MixedOptions) /\ part = NoPart /\ probe = NoProbe

SpecMixed == InitMixed /\ [][Next]_vars

\* ---------------------------------------------------------------------
\* A module with gates behind a loop
\* ---------------------------------------------------------------------

\* $b = AND(\k, $b) is a loop; \a = NOT($b) and \c = NOT(\a) lie behind it
DownstreamModule ==
  TopModule(<< [type |-> "$_NOT_", conn |-> [A |-> WireBit(<<"$", "b">>, 0),
                                              Y |-> WireBit(<<"\\", "a">>, 0)]],
               [type |-> "$_AND_", conn |-> [A |-> WireBit(ClkName, 0),
                                              B |-> WireBit(<<"$", "b">>, 0),
                                              Y |-> WireBit(<<"$", "b">>, 0)]],
               [type |-> "$_NOT_", conn |-> [A |-> WireBit(<<"\\", "a">>, 0),
                                              Y |-> WireBit(<<"\\", "c">>, 0)]] >>)

InitDownstream ==
  /\ InitWith(Designs \cup {<<DownstreamModule>>}, Options)
  /\ part = NoPart
  /\ probe = NoProbe

SpecDownstream == InitDownstream /\ [][Next]_vars

\* ---------------------------------------------------------------------
\* The command with -dff and without -clk: one pass per clock domain
\* ---------------------------------------------------------------------

\* the cells as the partitioner sees them: every bit canonical
DomainCells(mod, am) ==
  [i \in 1..Len(mod.cells) |->
     [type |-> mod.cells[i].type,
      conn |-> [p \in DOMAIN mod.cells[i].conn |-> SigMapApply(am, mod.cells[i].conn[p])]]]

\* the orders in which the keys of assigned_cells can be walked
KeyOrders(K) ==
  {s \in [1..Cardinality(K) -> K] : \A i, j \in 1..Cardinality(K) : s[i] = s[j] => i = j}

\* the passes of a module: the key and the names of the cells of every
\* domain, in the order ks of the keys
DomainPasses(mod, p, ks) ==
  [i \in 1..Len(ks) |->
     [key |-> ks[i],
      cells |-> [j \in 1..Len(p.assigned_cells[ks[i]]) |->
                   mod.cells[p.assigned_cells[ks[i]][j]].name]]]

\* the loop over the selected modules and, in a module, over its domains
DomainNext ==
  /\ pc = "next_module"
  /\ IF module = NoModule
     THEN IF pending = <<>>
          THEN /\ pc' = "end"
               /\ UNCHANGED <<pending, processed, module, assign_map, initvals, args, cells,
                              clk_polarity, clk_sig, en_polarity, en_sig, part>>
          ELSE LET mod == Head(pending)
                   am == SigMapSet(EmptyMap, mod.conns)
               IN  /\ \E order \in AddressOrders(Len(mod.cells)) :
                        LET p == RunPart(PartStart(DomainCells(mod, am), order))
                        IN  \E ks \in KeyOrders(DOMAIN p.assigned_cells) :
                              part' = [phase |-> "domains", todo |-> DomainPasses(mod, p, ks),
                                       clk_domain |-> 0]
                   /\ module' = mod
                   /\ pending' = Tail(pending)
                   /\ assign_map' = am
                   /\ initvals' = InitValsSet(am, mod.wires)
                   /\ pc' = "next_module"
                   /\ UNCHANGED <<processed, args, cells, clk_polarity, clk_sig, en_polarity,
                                  en_sig>>
     ELSE LET am == SigMapSet(EmptyMap, module.conns)
          IN  /\ assign_map' = am
              /\ IF part.todo = <<>>
                 THEN /\ processed' = Append(processed, module)
                      /\ module' = NoModule
                      /\ part' = NoPart
                      /\ pc' = "next_module"
                      /\ UNCHANGED <<args, cells, clk_polarity, clk_sig, en_polarity, en_sig>>
                 ELSE LET it == Head(part.todo)
                          clk == [i \in 1..Len(it.key[2]) |-> SigMapApply(am, it.key[2][i])]
                      IN  /\ clk_polarity' = it.key[1]
                          /\ clk_sig' = clk
                          /\ en_polarity' = it.key[3]
                          /\ en_sig' = [i \in 1..Len(it.key[4]) |-> SigMapApply(am, it.key[4][i])]
                          /\ args' = [dff_mode |-> clk # <<>>, clk_str |-> Dollar,
                                      clk_domain |-> part.clk_domain]
                          /\ cells' = it.cells
                          /\ part' = [part EXCEPT !.todo = Tail(@), !.clk_domain = @ + 1]
                          /\ pc' = "orlo_module"
                          /\ UNCHANGED <<processed, module>>
              /\ UNCHANGED <<pending, initvals>>
  /\ UNCHANGED <<cmd, opts, scratchpad, autoidx, signal_list, signal_map, recover_init,
                 map_autoidx, loopVars, files, hist, probe>>

\* modules with flip-flops on the clocks \k and \j and inverters
DomainModule(cs) ==
  [TopModule(cs) EXCEPT
     !.wires = [w \in DOMAIN TopWires \cup {AltClkName} |->
                  IF w = AltClkName THEN WireAttr(1, 8, FALSE, "x", FALSE) ELSE TopWires[w]]]

DomainDesigns ==
  {<<DomainModule(cs)>> : cs \in DesignsOver(BitSeq(DataBits), MaxPartCells)}
    \cup {<<LoopModule>>}

\* -dff without -clk
DomainOptions == {[Opt(<<>>, k, FALSE) EXCEPT !.dff_mode = TRUE] : k \in BOOLEAN}

InitDomains == InitWith(DomainDesigns, DomainOptions) /\ part = NoPart /\ probe = NoProbe

NextDomains ==
  \/ OrloExecute
  \/ DomainNext
  \/ OrloModuleBegin
  \/ ExtractCell
  \/ MarkPorts
  \/ HandleLoopsBegin
  \/ HandleLoopsPop
  \/ HandleLoopsSkip
  \/ HandleLoopsBreak
  \/ HandleLoopsEnd
  \/ Emit
  \/ RunTool
  \/ Reintegrate

SpecDomains == InitDomains /\ [][NextDomains]_vars

(***************************************************************************)
(* Properties of the loop breaker.                                         *)
(***************************************************************************)
\* the registry is the one handle_loops returned
AfterHandleLoops == pc \in {"emit", "run_tool", "reintegrate"}

\* the combinational nodes that stay when nodes without a combinational
\* fan-in among the remaining ones are removed again and again: the nodes
\* on or behind a directed cycle of the combinational fan-in graph
RECURSIVE CycleCore(_, _)
CycleCore(sl, R) ==
  LET free == {v \in R : EdgeFanIns(sl[v + 1]) \cap R = {}}
  IN  IF free = {} THEN R ELSE CycleCore(sl, R \ free)

CombNodes(sl) == {sl[k].id : k \in {j \in 1..Len(sl) : IsComb(sl[j])}}

HasCombCycle(sl) == CycleCore(sl, CombNodes(sl)) # {}

NoDuplicates(s) == \A i, j \in 1..Len(s) : i # j => s[i] # s[j]

\* C1: after handle_loops returns, the fan-in graph restricted to
\* combinational nodes has no directed cycle, for every registry, also one
\* in which every node is a combinational gate.
C1_AcyclicAfterLoops == AfterHandleLoops => ~HasCombCycle(signal_list)

\* C2: handle_loops terminates: the numbers of iterations of the outer
\* loop (pops) and of the inner loop (skips and breaks) are bounded by the
\* size of the initial graph, every node is popped at most once and chosen
\* for a break at most once, there are at most as many breaks as edges of
\* the initial graph, and the loops can always take their next step.
C2_LoopsTerminate ==
  /\ NoDuplicates(hist.breaks)
  /\ Len(hist.breaks) <= hist.edges0
  /\ NoDuplicates(hist.popped)
  /\ Len(hist.popped) <= hist.nodes0 + Len(hist.breaks)
  /\ hist.skips <= Len(hist.breaks)
  /\ pc = "hl_inner" => Len(signal_list) < NodeCap
  /\ pc # "abort"

\* handle_loops returned after it broke two loops
C2_Witness == pc = "emit" /\ Len(hist.breaks) = 2 /\ hist.skips > 0

(***************************************************************************)
(* Properties of the tool driver and of the two-phase workflow.            *)
(***************************************************************************)
\* C5: the decoupled workflow (orlo, the design restored, orlo_reint on
\* the files the tool left) ends with the host design in the state the
\* single-phase orlo run left it in: the same cells, wires, connections
\* and wire attributes, initial values of flip-flop outputs included.
C5_DecoupledSameAsSinglePhase ==
  (pc = "end" /\ cmd = "orlo_reint") => processed = hist.post_abc

\* C7: once the tool returned a non-zero exit code the command is in its
\* fatal error: orlo_reintegrate was not run for the pass, the tool was not
\* run again, and the host module is the one the failure found.
C7_ToolFailureIsFatal ==
  hist.tool_ret # 0 =>
    /\ pc = "error"
    /\ hist.reint_runs = hist.at_failure.reint_runs
    /\ hist.tool_runs = hist.at_failure.tool_runs
    /\ module = hist.at_failure.module

\* the tool failed on a netlist with gates and outputs
C7_Witness ==
  /\ pc = "error"
  /\ hist.tool_ret # 0
  /\ hist.removed > 0
  /\ HasOutputs(signal_list)

\* C8: orlo_reintegrate skips a domain without an error only when the
\* flattened netlist of the domain declares no output; a missing output
\* file of a domain with outputs is a fatal error.
C8_SkipOnlyWithoutOutputs == \A s \in hist.skipped : ~s[3]

(***************************************************************************)
(* Properties of the command set-up.                                       *)
(***************************************************************************)
ConfigErrors == {"Invalid -luts syntax.", "Unsupported gate type",
                 "Got -lut and -liberty/-genlib!", "Got -constr but no -liberty/-genlib!",
                 "Clock domain not found."}

\* C9: when the orlo command raises a configuration error, no cell of any
\* selected module was removed from the host design before, also when the
\* command runs on several modules.
C9_ConfigErrorBeforeRemoval ==
  (pc = "cmd_error" /\ cmd = "orlo" /\ hist.error \in ConfigErrors) => hist.removed = 0

(***************************************************************************)
(* Properties of the clock-domain partitioner.                             *)
(***************************************************************************)
\* how often cell c stands in the domain lists
Occurrences(p, c) ==
  Cardinality(UNION {{<<k, i>> : i \in {j \in DOMAIN p.assigned_cells[k] :
                                           p.assigned_cells[k][j] = c}} :
                       k \in DOMAIN p.assigned_cells})

\* C3: the domain lists form a partition of the selected cells: while the
\* domains are grown a cell is in no list as long as it is unassigned and
\* in exactly one list, once, from then on; when the passes are run every
\* selected cell is in exactly one list, once; only selected cells are in
\* the lists, no list is empty and no empty list is handed to a pass.
C3_DomainsPartitionCells ==
  part.phase # "off" =>
    /\ \A c \in 1..Len(part.cells) :
         Occurrences(part, c) =
           IF part.phase \notin {"passes", "done"} /\ c \in part.unassigned THEN 0 ELSE 1
    /\ \A k \in DOMAIN part.assigned_cells :
         /\ part.assigned_cells[k] # <<>>
         /\ Range(part.assigned_cells[k]) \subseteq 1..Len(part.cells)
    /\ \A l \in part.handed : l # <<>>
    /\ part.phase = "done" =>
         part.handed = {part.assigned_cells[k] : k \in DOMAIN part.assigned_cells}

\* the passes ran on two clock domains and on the cells without domain
C3_Witness ==
  /\ part.phase = "done"
  /\ Cardinality(part.handed) = 3
  /\ DefaultKey \in DOMAIN part.assigned_cells

\* C4: the domain every cell ends in does not depend on the order in which
\* the sets of cells are walked: the run ends with the cell-to-domain map
\* of the run on the same design whose cells lie at rising addresses.
C4_OrderIndependent ==
  part.phase = "done" =>
    part.assigned_cells_reverse =
      RunPart(PartStart(part.cells, VectorOrder(Len(part.cells)))).assigned_cells_reverse

(***************************************************************************)
(* Properties of the emitter's covers and of remap_name.                   *)
(***************************************************************************)
\* C6: for each of the sixteen gate kinds the rows of the emitted .names
\* block, read as a sum-of-products cover over the fan-ins in1..in4 =
\* A, B, C or S, D, give the function of the gate on every input.
C6_CoverIsGateFunction ==
  (probe.fn = "emit" /\ probe.done) =>
    probe.out = GateFn(probe.type, probe.ins[1], probe.ins[2], probe.ins[3], probe.ins[4])

\* a cover with four columns was evaluated to 1
C6_Witness ==
  /\ probe.fn = "emit"
  /\ probe.done
  /\ probe.type = "OAI4"
  /\ probe.out

\* is the tool name the emitter's name of a registered node with a wire
IsEmittedWireName(n) ==
  \E i \in 0..(Len(RemapList) - 1) : n.body = YsName(i) /\ RemapList[i + 1].bit.wire # NULL

\* the name the convention gives a tool name in a pass with counter k
ConventionName(n, k) ==
  IF IsEmittedWireName(n)
  THEN LET bit == RemapList[(CHOOSE i \in 0..(Len(RemapList) - 1) : n.body = YsName(i)) + 1].bit
       IN  AbcPrefix(k) \o Drop(bit.wire, 1)
           \o (IF RemapWires[bit.wire].width # 1
               THEN <<"[">> \o Dec(bit.offset) \o <<"]">> ELSE <<>>)
           \o (IF n.isnew THEN <<"_", "n", "e", "w">> ELSE <<>>)
           \o n.postfix
  ELSE AbcPrefix(k) \o Drop(IdOf(n), 1)

\* C10: remap_name returns, for the emitter's name of a registered node
\* with a backing wire, $abc$<k>$<wire name without its first character>,
\* [<offset>] iff the wire is wider than one bit, _new iff the name had the
\* new_ prefix, then the postfix; and for every other name $abc$<k>$ and
\* the tool's name without its first character.
C10_RemapConvention ==
  (probe.fn = "remap" /\ probe.done) =>
    /\ ~probe.out.threw
    /\ probe.out.name = ConventionName(probe.name, probe.k)

(***************************************************************************)
(* Properties of the re-created wires.                                      *)
(***************************************************************************)
\* C11: within one pass two distinct wire names of the tool's netlist are
\* never remapped to the same host name: no wire is re-created under a name
\* that an earlier wire of the same pass was created with.
C11_RemapCollisionFree == probe.fn = "wires" => ~probe.clash

(***************************************************************************)
(* Properties of the emitted netlist.                                      *)
(***************************************************************************)
\* the names of the nodes of sl that are boundary and whose kind is (isNone)
\* or is not (~isNone) unconnected
BoundaryNames(sl, isNone) ==
  {YsName(sl[k].id) : k \in {j \in 1..Len(sl) : sl[j].is_port /\ (sl[j].type = "NONE") = isNone}}

InnerNames(sl) == {YsName(sl[k].id) : k \in {j \in 1..Len(sl) : ~sl[j].is_port}}

\* C12: in the netlist the emitter writes, .inputs lists exactly the
\* boundary nodes of kind unconnected and .outputs exactly the boundary
\* nodes of a concrete kind, each once; no name is in both lists and no
\* non-boundary node is in either; dummy_input is written exactly when
\* there is no boundary input node.
C12_BoundaryLists ==
  [][pc = "emit" =>
       LET blif == files'[PassDir].input
           sl == signal_list
       IN  /\ Range(blif.inputs) = BoundaryNames(sl, TRUE)
           /\ Range(blif.outputs) = BoundaryNames(sl, FALSE)
           /\ NoDuplicates(blif.inputs \o blif.outputs)
           /\ InnerNames(sl) \cap (Range(blif.inputs) \cup Range(blif.outputs)) = {}
           /\ blif.dummy_input <=> BoundaryNames(sl, TRUE) = {}]_vars

\* a netlist with boundary inputs, boundary outputs and an inner node was
\* written
C12_Witness ==
  /\ pc = "run_tool"
  /\ files[PassDir].input.inputs # <<>>
  /\ files[PassDir].input.outputs # <<>>
  /\ InnerNames(signal_list) # {}

(***************************************************************************)
(* Properties of the reintegrator.                                         *)
(***************************************************************************)
\* the remapped wire of node si in the running pass
RemappedBit(si) ==
  WireBit(remap_name(Escaped(YsName(si.id)), signal_list, module.wires, map_autoidx).name, 0)

\* the connections of cs between the original bit and the remapped wire of
\* node si
ConnsOf(cs, si) ==
  {i \in 1..Len(cs) : {cs[i][1], cs[i][2]} = {si.bit, RemappedBit(si)}}

\* a step in which orlo_reintegrate ran to its end
ReintegrateDone ==
  /\ pc = "reintegrate"
  /\ pc' = "next_module"
  /\ ~ReintSkips(files, PassDir, signal_list)

\* the connections a step adds to the module
AddedConns == SubSeq(module'.conns, Len(module.conns) + 1, Len(module'.conns))

\* C13 as stated: reintegration adds exactly one connection per boundary
\* node; for a node of a concrete kind the original bit is the driver and
\* the remapped wire the driven side, for a node of no kind the remapped
\* wire is the driver and the original bit the driven side.
C13_BoundaryConnsAsStated ==
  [][ReintegrateDone =>
       \A k \in 1..Len(signal_list) :
         LET si == signal_list[k]
             mine == ConnsOf(AddedConns, si)
         IN  IF ~si.is_port THEN mine = {}
             ELSE /\ Cardinality(mine) = 1
                  /\ \A i \in mine :
                       IF si.type # "NONE"
                       THEN ConnDriver(AddedConns[i]) = si.bit
                            /\ ConnDriven(AddedConns[i]) = RemappedBit(si)
                       ELSE ConnDriver(AddedConns[i]) = RemappedBit(si)
                            /\ ConnDriven(AddedConns[i]) = si.bit]_vars

\* C13 amended: reintegration adds exactly one connection per boundary
\* node; for a node of a concrete kind the remapped wire is the driver and
\* the original bit the driven side, for a node of no kind the original bit
\* is the driver and the remapped wire the driven side.
C13_BoundaryConns ==
  [][ReintegrateDone =>
       \A k \in 1..Len(signal_list) :
         LET si == signal_list[k]
             mine == ConnsOf(AddedConns, si)
         IN  IF ~si.is_port THEN mine = {}
             ELSE /\ Cardinality(mine) = 1
                  /\ \A i \in mine :
                       IF si.type # "NONE"
                       THEN ConnDriver(AddedConns[i]) = RemappedBit(si)
                            /\ ConnDriven(AddedConns[i]) = si.bit
                       ELSE ConnDriver(AddedConns[i]) = si.bit
                            /\ ConnDriven(AddedConns[i]) = RemappedBit(si)]_vars

\* a reintegration connected a boundary output and a boundary input
C13_Witness ==
  /\ pc = "next_module"
  /\ hist.reint_runs > 0
  /\ \E i, j \in 1..Len(signal_list) :
       /\ signal_list[i].is_port /\ signal_list[i].type # "NONE"
       /\ <<signal_list[i].bit, RemappedBit(signal_list[i])>> \in Range(module.conns)
       /\ signal_list[j].is_port /\ signal_list[j].type = "NONE"
       /\ <<RemappedBit(signal_list[j]), signal_list[j].bit>> \in Range(module.conns)

\* the cells a step adds to the module
AddedCells == SubSeq(module'.cells, Len(module.cells) + 1, Len(module'.cells))

\* the module of the running pass as it was before the command
OriginalModule == CHOOSE m \in Range(hist.design0) : m.name = module.name

\* is created cell c1 the flip-flop on the remapped wire of the node that
\* was registered for the output of original cell c0
Recreates(c1, c0) ==
  \E k \in 1..Len(signal_list) :
    /\ signal_list[k].type = "FF"
    /\ signal_list[k].bit = SigMapApply(assign_map, c0.conn.Q)
    /\ c1.conn.Q = RemappedBit(signal_list[k])

\* C14: every flip-flop cell that reintegration creates has the discipline
\* the pass requires of the flip-flops it extracts: the type of that clock
\* polarity, enable and enable polarity, the clock port on the clock signal
\* of the pass, and an enable port, on the enable signal of the pass,
\* exactly when the pass has one; a flip-flop that the pass extracted and
\* re-created has its original type and clock and enable connections.
C14_FlipFlopDiscipline ==
  [][ReintegrateDone =>
       \A i \in 1..Len(AddedCells) :
         LET c1 == AddedCells[i]
         IN  c1.type \in DffTypes \cup DffeTypes =>
               /\ matching_dff(c1, assign_map, Ctx)
               /\ ("E" \in DOMAIN c1.conn) <=> (Len(en_sig) # 0)
               /\ \A j \in 1..Len(OriginalModule.cells) :
                    LET c0 == OriginalModule.cells[j]
                    IN  (c0.type \in DffTypes \cup DffeTypes /\ Recreates(c1, c0)) =>
                          /\ c1.type = c0.type
                          /\ c1.conn.C = SigMapApply(assign_map, c0.conn.C)
                          /\ "E" \in DOMAIN c0.conn =>
                               c1.conn.E = SigMapApply(assign_map, c0.conn.E)
                          /\ DOMAIN c1.conn = DOMAIN c0.conn]_vars

\* a pass on a falling clock with an active-low enable re-created the
\* flip-flop it had extracted
C14_Witness ==
  /\ pc = "next_module"
  /\ hist.reint_runs > 0
  /\ ~clk_polarity /\ ~en_polarity /\ Len(en_sig) = 1
  /\ \E i \in 1..Len(module.cells) : \E j \in 1..Len(OriginalModule.cells) :
       /\ module.cells[i].type = "$_DFFE_NN_"
       /\ OriginalModule.cells[j].type = "$_DFFE_NN_"
       /\ module.cells[i].name # OriginalModule.cells[j].name
       /\ Recreates(module.cells[i], OriginalModule.cells[j])

(***************************************************************************)
(* Properties of the command script.                                       *)
(***************************************************************************)
\* s with every occurrence of pat replaced by rep, from left to right
RECURSIVE ReplaceAll(_, _, _)
ReplaceAll(s, pat, rep) ==
  LET pos == Find(s, pat, 0)
  IN  IF pos = -1 THEN s
      ELSE SubSeq(s, 1, pos) \o rep \o ReplaceAll(Drop(s, pos + Len(pat)), pat, rep)

Placeholders == {Placeholder("D"), Placeholder("I"), Placeholder("P"), Placeholder("S")}

\* C15: after the script is built every occurrence of {D}, {I}, {P} and
\* {S} in the template, default or custom, is replaced by its parameter
\* string; the parameter strings holding no placeholder, the script holds
\* none.
C15_PlaceholdersReplaced ==
  (probe.fn = "script" /\ probe.done) =>
    LET o == probe.o
        t == WithRetime(o, ScriptTemplate(o))
    IN  /\ probe.out =
             ReplaceAll(ReplaceAll(ReplaceAll(ReplaceAll(t, Placeholder("D"), o.delay_target),
                                              Placeholder("I"), o.sop_inputs),
                                   Placeholder("P"), o.sop_products),
                        Placeholder("S"), o.lutin_shared)
        /\ \A ph \in Placeholders : Find(probe.out, ph, 0) = -1

\* C16: distinct (module, domain-index) pairs of one run are given distinct
\* directories, so the directory of every pass can be created.
C16_DistinctDirectories ==
  probe.fn = "dirs" =>
    /\ ~probe.failed
    /\ \A i, j \in DOMAIN probe.done :
         <<probe.done[i][1], probe.done[i][2]>> # <<probe.done[j][1], probe.done[j][2]>>
           => probe.done[i][3] # probe.done[j][3]

\* the cells of p that are in a domain list
AssignedCells(p) == (1..Len(p.cells)) \ p.unassigned

\* no unassigned cell consumes a bit that an assigned cell produces
ForwardClosed(p) ==
  \A a \in AssignedCells(p) : \A u \in p.unassigned :
    DownBits(p.cells[a]) \cap UpBits(p.cells[u]) = {}

\* no unassigned cell produces a bit that an assigned cell consumes
BackwardClosed(p) ==
  \A a \in AssignedCells(p) : \A u \in p.unassigned :
    UpBits(p.cells[a]) \cap DownBits(p.cells[u]) = {}

\* C17: the directed expansion is transitive in both directions: when the
\* directed phase ends no unassigned cell consumes a bit produced by an
\* assigned cell and no unassigned cell produces a bit consumed by an
\* assigned cell.
C17_DirectedClosure ==
  [][(part.phase = "directed" /\ part'.phase # "directed")
       => (ForwardClosed(part') /\ BackwardClosed(part'))]_vars

\* the cells of cs that share a bit with a cell of S, and S itself
Neighbours(cs, S) ==
  S \cup {c \in 1..Len(cs) : \E s \in S : CellBits(cs[c]) \cap CellBits(cs[s]) # {}}

\* the cells of cs with an undirected bit-sharing path to a cell of S
RECURSIVE SharingClosure(_, _)
SharingClosure(cs, S) ==
  IF Neighbours(cs, S) = S THEN S ELSE SharingClosure(cs, Neighbours(cs, S))

FlipFlops(cs) == {c \in 1..Len(cs) : cs[c].type \in DffTypes \cup DffeTypes}

\* the cells of the default domain of p
DefaultDomain(p) ==
  IF DefaultKey \in DOMAIN p.assigned_cells THEN Range(p.assigned_cells[DefaultKey]) ELSE {}

\* C18: after partitioning the default domain holds exactly the selected
\* cells without an undirected bit-sharing path to a flip-flop, and no cell
\* of it shares a bit with a cell of a flip-flop-seeded domain.
C18_DefaultDomainIsolated ==
  part.phase \in {"passes", "done"} =>
    /\ DefaultDomain(part) =
         (1..Len(part.cells)) \ SharingClosure(part.cells, FlipFlops(part.cells))
    /\ \A d \in DefaultDomain(part) : \A a \in (1..Len(part.cells)) \ DefaultDomain(part) :
         CellBits(part.cells[d]) \cap CellBits(part.cells[a]) = {}

\* a flip-flop's domain took a cell that neither consumes a flip-flop's
\* output nor drives a flip-flop's input, and another cell went to the
\* default domain
C18_Witness ==
  /\ part.phase = "done"
  /\ DefaultDomain(part) # {}
  /\ \E c \in (1..Len(part.cells)) \ (DefaultDomain(part) \cup FlipFlops(part.cells)) :
       \A f \in FlipFlops(part.cells) :
         /\ DownBits(part.cells[f]) \cap UpBits(part.cells[c]) = {}
         /\ UpBits(part.cells[f]) \cap DownBits(part.cells[c]) = {}

(***************************************************************************)
(* Properties of the choice of the break node and of one break.            *)
(***************************************************************************)
BreakWire(id) == probe.sl[id + 1].bit.wire
Successors(id) == Cardinality(probe.e[id])

\* node a goes before node b by number of successors, then by name
MoreOrSmaller(a, b) ==
  \/ Successors(a) > Successors(b)
  \/ Successors(a) = Successors(b) /\ StrLess(BreakWire(a), BreakWire(b))

\* the priority as stated: no wire first, then the internal names
BeforeAsStated(a, b) ==
  IF BreakWire(a) = NULL \/ BreakWire(b) = NULL
  THEN BreakWire(a) = NULL /\ BreakWire(b) # NULL
  ELSE IF BreakWire(a)[1] # BreakWire(b)[1] THEN BreakWire(a)[1] = "$"
  ELSE MoreOrSmaller(a, b)

\* the priority with a wire first, then the user-given names
Before(a, b) ==
  IF BreakWire(a) = NULL \/ BreakWire(b) = NULL
  THEN BreakWire(a) # NULL /\ BreakWire(b) = NULL
  ELSE IF BreakWire(a)[1] # BreakWire(b)[1] THEN BreakWire(a)[1] = "\\"
  ELSE MoreOrSmaller(a, b)

\* C19 as stated: the node chosen is one that no other candidate goes
\* before, where a node without wire goes before a node with a wire, then
\* an internal name ($) before a user-given name, then more successors,
\* then the smaller name.
C19_BreakPriorityAsStated ==
  (probe.fn = "select" /\ probe.chosen # -1) =>
    \A k \in DOMAIN probe.e : ~BeforeAsStated(k, probe.chosen)

\* C19: the node chosen is one that no other candidate goes before, where a
\* node with a wire goes before a node without, then a user-given name
\* before an internal name ($), then more successors, then the smaller
\* name.
C19_BreakPriority ==
  (probe.fn = "select" /\ probe.chosen # -1) =>
    \A k \in DOMAIN probe.e : ~Before(k, probe.chosen)

\* a node on a public wire was chosen among a node without wire and a
\* node on an internal wire with more successors
C19_Witness ==
  /\ probe.fn = "select"
  /\ probe.chosen # -1
  /\ BreakWire(probe.chosen) # NULL
  /\ BreakWire(probe.chosen)[1] = "\\"
  /\ \E k \in DOMAIN probe.e : BreakWire(k) = NULL
  /\ \E k \in DOMAIN probe.e :
       /\ BreakWire(k) # NULL
       /\ BreakWire(k)[1] = "$"
       /\ Successors(k) > Successors(probe.chosen)

FanIns(g) == <<g.in1, g.in2, g.in3, g.in4>>

\* the registry sl1 and the connections cs1 are sl0 and cs0 after one
\* break at node id1
BreakEffect(sl0, sl1, cs0, cs1, id1) ==
  LET id3 == Len(sl0)
  IN  /\ Len(sl1) = Len(sl0) + 1
      /\ sl1[id3 + 1].id = id3
      /\ sl1[id3 + 1].type = "NONE"
      /\ sl1[id3 + 1].is_port
      /\ sl1[id1 + 1].is_port
      /\ \A k \in 1..Len(sl0) :
           /\ sl1[k].type = sl0[k].type
           /\ sl1[k].id = sl0[k].id
           /\ sl1[k].bit = sl0[k].bit
           /\ sl1[k].init = sl0[k].init
           /\ k - 1 # id1 => sl1[k].is_port = sl0[k].is_port
           /\ FanIns(sl1[k]) =
                IF IsComb(sl0[k])
                THEN [i \in 1..4 |-> IF FanIns(sl0[k])[i] = id1 THEN id3 ELSE FanIns(sl0[k])[i]]
                ELSE FanIns(sl0[k])
           /\ IsComb(sl1[k]) => \A i \in 1..4 : FanIns(sl1[k])[i] # id1
      /\ Len(cs1) = Len(cs0) + 1
      /\ SubSeq(cs1, 1, Len(cs0)) = cs0
      /\ {cs1[Len(cs1)][1], cs1[Len(cs1)][2]} = {sl1[id3 + 1].bit, sl0[id1 + 1].bit}

\* C20: a break adds exactly one node (kind unconnected, id the previous
\* node count), marks the chosen and the new node as boundary, replaces
\* every fan-in reference to the chosen node in every combinational node by
\* the new id, records exactly one host connection between the new signal
\* and the chosen node's bit, and changes nothing else in the registry, the
\* cells and the connections: no kind changes and the fan-ins of flip-flop
\* nodes are unchanged.
C20_BreakFrame ==
  [][(pc = "hl_inner" /\ Len(hist'.breaks) = Len(hist.breaks) + 1)
       => /\ BreakEffect(signal_list, signal_list', module.conns, module'.conns,
                         hist'.breaks[Len(hist'.breaks)])
          /\ module'.cells = module.cells
          /\ cells' = cells]_vars

\* a loop was broken at a node that feeds a flip-flop: a gate reads the new
\* node through its second fan-in, the flip-flop still reads the chosen node
C20_Witness ==
  /\ Len(hist.breaks) = 1
  /\ Len(signal_list) = hist.nodes0 + 1
  /\ \E k \in 1..Len(signal_list) :
       /\ signal_list[k].type = "FF"
       /\ signal_list[k].in1 = hist.breaks[1]
  /\ \E k \in 1..Len(signal_list) :
       /\ IsComb(signal_list[k])
       /\ signal_list[k].in2 = hist.nodes0

(***************************************************************************)
(* Properties of the registry and of the passes.                           *)
(***************************************************************************)
InHandleLoops == pc \in {"handle_loops", "hl_outer", "hl_inner"}

\* the registry handle_loops was called on
LoopsInput == IF pc = "handle_loops" THEN signal_list ELSE hist.list0

\* C21: if the combinational fan-in graph has no directed cycle (cycles
\* through a flip-flop node are allowed), no step of handle_loops changes
\* the registry or the host module: no node is added, no fan-in rewritten,
\* no boundary flag set, no wire or connection created.
C21_NoCycleNoChange ==
  [][(InHandleLoops /\ ~HasCombCycle(LoopsInput))
       => /\ signal_list' = signal_list
          /\ signal_map' = signal_map
          /\ module' = module
          /\ autoidx' = autoidx]_vars

\* handle_loops returned without a break on a registry with a gate and a
\* flip-flop that feeds its own data input
C21_Witness ==
  /\ AfterHandleLoops
  /\ hist.loops_done > 0
  /\ hist.breaks = <<>>
  /\ hist.list0 = signal_list
  /\ \E k \in 1..Len(signal_list) :
       signal_list[k].type = "FF" /\ signal_list[k].in1 = signal_list[k].id
  /\ \E k \in 1..Len(signal_list) : IsComb(signal_list[k])

Registry == [list |-> signal_list, map |-> signal_map]

\* the node at index i has id i, and the map is a bijection between the
\* registered canonical bits and the ids
DenseIds ==
  /\ \A k \in 1..Len(signal_list) :
       /\ signal_list[k].id = k - 1
       /\ signal_list[k].bit \in DOMAIN signal_map
       /\ signal_map[signal_list[k].bit] = k - 1
  /\ DOMAIN signal_map = {signal_list[k].bit : k \in 1..Len(signal_list)}

\* the arguments of the calls that are tried on every registry
CallBits == DataBits \cup {ConstBit("0"), WireBit(ClkName, 0)}
CallTypes == {"NONE", "AND", "FF"}
CallFanIns == {-1, 0}

\* a call of map_signal on the registry: a registered bit returns its id
\* and leaves the node count, a new bit returns the node count and stores
\* the node fresh(n, bit, type, in1); the other nodes stay
CallEffect(fresh(_, _, _, _)) ==
  \A b \in CallBits : \A t \in CallTypes : \A i1 \in CallFanIns :
    LET r == map_signal(Registry, assign_map, initvals, b, t, i1, -1, -1, -1)
        cb == SigMapApply(assign_map, b)
        n == Len(signal_list)
    IN  /\ IF cb \in DOMAIN signal_map
           THEN r.id = signal_map[cb] /\ Len(r.list) = n
           ELSE /\ r.id = n
                /\ Len(r.list) = n + 1
                /\ r.list[n + 1] = fresh(n, cb, t, i1)
        /\ \A k \in 1..n : k # r.id + 1 => r.list[k] = signal_list[k]
        /\ r.map[cb] = r.id

\* the new node as stated: unconnected, all fan-ins -1, not a boundary
FreshAsStated(n, bit, t, i1) == gate_t(n, bit, InitValsOf(initvals, bit))

\* the new node with the kind and the fan-in of the call
FreshWithArguments(n, bit, t, i1) ==
  [gate_t(n, bit, InitValsOf(initvals, bit)) EXCEPT
     !.type = t, !.in1 = IF i1 >= 0 THEN i1 ELSE -1]

\* C22 as stated: the ids are dense and stable, a call on a registered bit
\* returns its id and leaves the node count, a call on a new bit returns
\* the node count and stores an unconnected node with all fan-ins -1 and
\* boundary flag false.
C22_DenseStableIdsAsStated == DenseIds /\ CallEffect(FreshAsStated)

\* C22: the ids are dense and stable, a call on a registered bit returns
\* its id and leaves the node count, a call on a new bit returns the node
\* count and stores a node with boundary flag false that has the kind and
\* the fan-ins given to the call (unconnected and -1 where none is given).
C22_DenseStableIds == DenseIds /\ CallEffect(FreshWithArguments)

\* a registry with a gate, on which one of the bits tried is registered
\* and another is new
C22_Witness ==
  /\ pc = "extract"
  /\ \E k \in 1..Len(signal_list) : IsComb(signal_list[k])
  /\ \E b \in CallBits : SigMapApply(assign_map, b) \in DOMAIN signal_map
  /\ \E b \in CallBits : SigMapApply(assign_map, b) \notin DOMAIN signal_map

\* C23: within a pass the kind of a node goes at most once from
\* unconnected to a concrete kind; a concrete kind is never changed to a
\* different kind.
C23_KindSetOnce ==
  [][\A k \in 1..Len(signal_list) :
       (k <= Len(signal_list') /\ signal_list[k].type # "NONE")
         => signal_list'[k].type = signal_list[k].type]_vars

\* the number of fan-in slots a kind uses
SlotsOf(t) ==
  CASE t \in {"FF", "BUF", "NOT"} -> 1
    [] t \in {"AND", "NAND", "OR", "NOR", "XOR", "XNOR", "ANDNOT", "ORNOT"} -> 2
    [] t \in {"MUX", "NMUX", "AOI3", "OAI3"} -> 3
    [] t \in {"AOI4", "OAI4"} -> 4
    [] OTHER -> 0

\* C24: in every state of a pass every node of concrete kind has an id
\* between 0 and node count - 1 in each fan-in slot its kind uses, and -1
\* in every slot it does not use.
C24_FanInSlots ==
  \A k \in 1..Len(signal_list) :
    signal_list[k].type # "NONE" =>
      \A i \in 1..4 :
        IF i <= SlotsOf(signal_list[k].type)
        THEN FanIns(signal_list[k])[i] \in 0..(Len(signal_list) - 1)
        ELSE FanIns(signal_list[k])[i] = -1

\* the canonical bits of the argument of the call
MarkedBits == {SigMapApply(probe.am, probe.sig[i]) : i \in 1..Len(probe.sig)}

\* the call set the boundary flag of the registered nodes on the bits of B
\* and changed nothing else
MarkEffect(B) ==
  /\ probe.out.map = probe.reg.map
  /\ Len(probe.out.list) = Len(probe.reg.list)
  /\ \A k \in 1..Len(probe.reg.list) :
       probe.out.list[k] =
         [probe.reg.list[k] EXCEPT !.is_port = @ \/ probe.reg.list[k].bit \in B]

\* C25 as stated: mark_port sets the boundary flag of every bit of its
\* argument that is registered after canonicalization, constants as well
\* as wire bits, ignores the other bits, adds no node and changes no other
\* field.
C25_MarkPortAsStated ==
  (probe.fn = "mark" /\ probe.done) => MarkEffect(MarkedBits)

\* C25: mark_port sets the boundary flag of every wire bit of its argument
\* that is registered after canonicalization, ignores constants and bits
\* that are not registered, adds no node and changes no other field.
C25_MarkPort ==
  (probe.fn = "mark" /\ probe.done) => MarkEffect({b \in MarkedBits : b.wire # NULL})

\* a call whose argument holds a registered constant and a registered wire
\* bit: only the node of the wire bit was marked
C25_Witness ==
  /\ probe.fn = "mark"
  /\ probe.done
  /\ \E b \in MarkedBits : b.wire = NULL /\ b \in DOMAIN probe.reg.map
  /\ \E b \in MarkedBits : b.wire # NULL /\ b \in DOMAIN probe.reg.map
  /\ \E k \in 1..Len(probe.out.list) : probe.out.list[k].is_port
  /\ \E k \in 1..Len(probe.out.list) : ~probe.out.list[k].is_port

\* the cell the next extract_cell is called on
NextCell == CellByName(module.cells, Head(cells))

Catalogue == DffTypes \cup DffeTypes \cup Gate1Types \cup Gate2Types \cup MuxTypes
               \cup Gate3Types \cup Gate4Types

\* the flip-flop c differs from the pass in clock polarity, clock signal,
\* presence of an enable, enable polarity or enable signal
DisciplineDiffers(c) ==
  \/ clk_polarity # (c.type \in {"$_DFF_P_", "$_DFFE_PN_", "$_DFFE_PP_"})
  \/ clk_sig # <<SigMapApply(assign_map, c.conn.C)>>
  \/ (c.type \in DffeTypes) # (Len(en_sig) # 0)
  \/ /\ c.type \in DffeTypes
     /\ \/ en_polarity # (c.type \in {"$_DFFE_NP_", "$_DFFE_PP_"})
        \/ en_sig # <<SigMapApply(assign_map, c.conn.E)>>

Rejected(c) ==
  \/ c.type \notin Catalogue
  \/ c.type \in DffTypes \cup DffeTypes /\ DisciplineDiffers(c)

\* C26: extract_cell on a flip-flop whose discipline differs from the
\* pass's, or on a cell outside the catalogue, removes no cell, registers
\* no node and changes no node or wire attribute; a cell is removed only
\* when the same call recorded it in the registry.
C26_RejectedCellUntouched ==
  [][(pc = "extract" /\ cells # <<>>)
       => /\ Rejected(NextCell) =>
               /\ module' = module
               /\ signal_list' = signal_list
               /\ signal_map' = signal_map
          /\ module'.cells # module.cells =>
               /\ module'.cells = RemoveCell(module.cells, NextCell.name)
               /\ \E k \in 1..Len(signal_list') :
                    /\ signal_list'[k].bit = SigMapApply(assign_map, OutBit(NextCell))
                    /\ signal_list'[k].type =
                         IF NextCell.type \in DffTypes \cup DffeTypes THEN "FF"
                         ELSE GateOf(NextCell.type)]_vars

\* all cells were visited: a flip-flop was extracted, and a flip-flop on
\* another clock signal stayed in the module
C26_Witness ==
  /\ pc = "extract"
  /\ cells = <<>>
  /\ hist.removed > 0
  /\ Len(clk_sig) # 0
  /\ \E i \in 1..Len(module.cells) :
       /\ module.cells[i].type \in DffTypes \cup DffeTypes
       /\ clk_sig # <<SigMapApply(assign_map, module.cells[i].conn.C)>>
       /\ ~module.wires[module.cells[i].conn.Q.wire].keep
  /\ opts.keepff

\* the nodes reached from the nodes of S along the edges of e
RECURSIVE ReachedFrom(_, _)
ReachedFrom(e, S) ==
  LET T == S \cup UNION {EdgesAt(e, u) : u \in S}
  IN  IF T = S THEN S ELSE ReachedFrom(e, T)

\* node v lies on a directed cycle of the graph e
OnCycle(e, v) == v \in ReachedFrom(e, EdgesAt(e, v))

\* C27: every node chosen for a break lies on a directed combinational
\* cycle of the remaining graph at the moment it is chosen; a node that is
\* only downstream of a cycle is never made a boundary.
C27_BreakOnCycle ==
  [][(pc = "hl_inner" /\ Len(hist'.breaks) = Len(hist.breaks) + 1)
       => OnCycle(edges, hist'.breaks[Len(hist'.breaks)])]_vars

\* the number of definitions of name n in an emitted netlist: entries of
\* .inputs, constant declarations, outputs of .names and .latch lines
Definitions(blif, n) ==
  Cardinality({i \in 1..Len(blif.inputs) : blif.inputs[i] = n})
  + Cardinality({i \in 1..Len(blif.consts) : blif.consts[i].out = n})
  + Cardinality({i \in 1..Len(blif.body) : blif.body[i].out = n})

\* C28: in every emitted netlist each name that appears as a fan-in of a
\* .names or .latch line is defined exactly once in the same file.
C28_FanInsDefinedOnce ==
  \A d \in DOMAIN files :
    LET blif == files[d].input
    IN  \A i \in 1..Len(blif.body) : \A j \in 1..Len(blif.body[i].ins) :
          Definitions(blif, blif.body[i].ins[j]) = 1

Canonical(b) == SigMapApply(assign_map, b)

\* bit b of the registry is also a bit of something outside the extracted
\* cells: a cell left in the module (of another domain, re-created by an
\* earlier pass, a flip-flop left untouched, a foreign cell), a module
\* port, a wire with the keep attribute, the clock or the enable signal
ConnectsOutside(b) ==
  \/ \E i \in 1..Len(module.cells) : \E p \in DOMAIN module.cells[i].conn :
       Canonical(module.cells[i].conn[p]) = b
  \/ \E w \in DOMAIN module.wires :
       /\ module.wires[w].port_id > 0 \/ module.wires[w].keep
       /\ Canonical(WireBit(w, 0)) = b
  \/ b \in Range(clk_sig) \cup Range(en_sig)

\* the pass extracted its cells and marked the boundary
PassMarked == pc \in {"handle_loops", "hl_outer", "hl_inner", "emit", "run_tool"}

\* C29: in every pass, also after earlier domains were reintegrated, each
\* registered wire bit that connects an extracted cell to anything outside
\* the extracted set is a boundary node of the pass, and is an input or an
\* output of the emitted netlist.
C29_OutsideBitsAreBoundary ==
  PassMarked =>
    \A k \in 1..Len(signal_list) :
      (signal_list[k].bit.wire # NULL /\ ConnectsOutside(signal_list[k].bit)) =>
        /\ signal_list[k].is_port
        /\ pc = "run_tool" =>
             YsName(signal_list[k].id)
               \in Range(files[PassDir].input.inputs) \cup Range(files[PassDir].input.outputs)

\* the pass of a second domain emitted its netlist: a bit of it goes to a
\* cell that the pass of the first domain re-created, another to a cell of
\* the module as it was
C29_Witness ==
  /\ pc = "run_tool"
  /\ part.phase = "domains"
  /\ args.clk_domain > 0
  /\ \E k \in 1..Len(signal_list) : \E i \in 1..Len(module.cells) :
       /\ module.cells[i] \notin Range(OriginalModule.cells)
       /\ \E p \in DOMAIN module.cells[i].conn :
            Canonical(module.cells[i].conn[p]) = signal_list[k].bit
       /\ signal_list[k].is_port

\* the number of keys of the edge map whose successor set contains v
InDegree(v) == Cardinality({u \in DOMAIN edges : v \in edges[u]})

\* C30: throughout handle_loops the counter of every node is the number of
\* keys of the edge map whose successor set contains it and the counter
\* vector has one entry per registered node; no assertion of handle_loops
\* fails, no node is in the workpool while its counter is positive, and
\* each node is taken from the workpool at most once.
C30_CountersAreInDegrees ==
  /\ pc \in {"hl_outer", "hl_inner"} =>
       /\ Len(in_edges_count) = Len(signal_list)
       /\ \A v \in 0..(Len(signal_list) - 1) : in_edges_count[v + 1] = InDegree(v)
       /\ \A v \in workpool : in_edges_count[v + 1] = 0
       /\ \A u \in DOMAIN edges : \A v \in edges[u] : in_edges_count[v + 1] > 0
  /\ NoDuplicates(hist.popped)
  /\ pc # "abort"

\* handle_loops broke a loop and went on to pop nodes while another node
\* still waits for a fan-in
C30_Witness ==
  /\ pc = "hl_outer"
  /\ Len(hist.breaks) > 0
  /\ Len(hist.popped) > 1
  /\ \E v \in 1..Len(in_edges_count) : in_edges_count[v] > 0
  /\ workpool # {}

====
